---- MODULE Spec2Model ----
(***************************************************************************)
(* The query document validator (QueryValidator) and the call of it made   *)
(* by the App's validation effect.  A document is an untyped JavaScript    *)
(* value; the validator walks it and returns {isValid, errors}.  The store  *)
(* (useQueryStore) holds the document and stepOptions; the App exports and  *)
(* imports the document as JSON.                                           *)
(***************************************************************************)
EXTENDS Integers, Sequences, FiniteSets, TLC

VARIABLES
  query,              \* the document: the argument of the call, the store's query
  validationResult,   \* the App's validationResult state
  pc,                 \* "call": a validation is due; "returned" / "thrown": it ended
  stepOptions,        \* the store's stepOptions
  importCall,         \* the latest store operation, when it was importQuery: its
                      \* argument queryData and the boolean it returned
  download,           \* the latest exported file, with the document it was made of
  partialResult,      \* what the latest validatePartialQuery call returned
  outcomes,           \* per document, the outcome of the latest validateQuery call on
                      \* it by a caller outside the App, and the number of these calls
  initialQueryObject  \* the store module's initialQuery object as it is now: the
                      \* store's query is this very object at first and after a reset

vars ==
  <<query, validationResult, pc, stepOptions, importCall, download, partialResult, outcomes,
    initialQueryObject>>

(***************************************************************************)
(* JavaScript values.  Every value is a record tagged by t; an object      *)
(* carries the function f from its own property names to their values (a   *)
(* property that is absent is not in DOMAIN f), an array the sequence a.   *)
(***************************************************************************)
Undef == [t |-> "undefined"]

Null == [t |-> "null"]

Bool(b) == [t |-> "boolean", b |-> b]

Num(n) == [t |-> "number", n |-> n]

Str(s) == [t |-> "string", s |-> s]

Arr(a) == [t |-> "array", a |-> a]

Obj(f) == [t |-> "object", f |-> f]

\* An object literal: the properties of rec whose value is not undefined.
MkObj(rec) == Obj([k \in {j \in DOMAIN rec : rec[j] # Undef} |-> rec[k]])

\* v is null or undefined: reading a property of v raises a TypeError.
IsNullish(v) == v.t \in {"undefined", "null"}

\* v.k for a v that is not nullish (none of the property names read by the
\* validator is a property of an array, a string, a number or a boolean).
Get(v, k) == IF v.t = "object" /\ k \in DOMAIN v.f THEN v.f[k] ELSE Undef

\* ToBoolean(v): the falsy values are undefined, null, false, 0 and "".
Truthy(v) ==
  CASE v.t = "undefined" -> FALSE
    [] v.t = "null" -> FALSE
    [] v.t = "boolean" -> v.b
    [] v.t = "number" -> v.n # 0
    [] v.t = "string" -> v.s # ""
    [] OTHER -> TRUE

\* typeof v
TypeOf(v) ==
  CASE v.t = "null" -> "object"
    [] v.t = "array" -> "object"
    [] OTHER -> v.t

\* Array.isArray(v)
IsArray(v) == v.t = "array"

\* [s1, s2, ...].includes(v) for an array literal of strings, given as a set
Includes(strings, v) == v.t = "string" /\ v.s \in strings

\* an index printed one-based
Index_OneBased(i) == ToString(i)

\* `${index}` of a zero-based forEach index; i is the one-based position
Index(i) == ToString(i - 1)

(***************************************************************************)
(* The outcome of a validator function: the errors it returns, or thrown   *)
(* when a TypeError propagates out of it.                                  *)
(***************************************************************************)
Return(errors) == [thrown |-> FALSE, errors |-> errors]

Throw == [thrown |-> TRUE, errors |-> <<>>]

\* errors.push(msg) when cond holds
PushIf(cond, msg) == IF cond THEN <<msg>> ELSE <<>>

\* r1 and r2 with the errors of r2 pushed first
Then_SecondFirst(r1, r2) ==
  IF r1.thrown THEN [thrown |-> TRUE, errors |-> <<>>]
  ELSE IF r2.thrown THEN [thrown |-> TRUE, errors |-> <<>>]
  ELSE [thrown |-> FALSE, errors |-> r2.errors \o r1.errors]

\* r1 runs, then r2: an exception in r1 leaves r2 unexecuted
Then(r1, r2) ==
  IF r1.thrown THEN Throw
  ELSE IF r2.thrown THEN Throw
  ELSE Return(r1.errors \o r2.errors)

RECURSIVE PushAllFrom(_, _)
\* the pushes errors.push(...outs[n]), errors.push(...outs[n+1]), ...
PushAllFrom(outs, n) ==
  IF n > Len(outs) THEN Return(<<>>)
  ELSE Then(outs[n], PushAllFrom(outs, n + 1))

RECURSIVE PushUntilError(_, _)
PushUntilError(outs, n) ==
  IF n > Len(outs) THEN Return(<<>>)
  ELSE IF outs[n].thrown THEN Throw
  ELSE IF outs[n].errors # <<>> THEN outs[n]
  ELSE PushUntilError(outs, n + 1)

\* a forEach that stops at the first element with an error
ForEachPush_StopAtFirstError(outs) == PushUntilError(outs, 1)

\* arr.forEach((x, index) => errors.push(...f(x, index))), where outs[n] is
\* the outcome of f on the n-th element
ForEachPush(outs) == PushAllFrom(outs, 1)

\* the operator list with "not-equals" for "not equals"
OperatorLiterals_Hyphen == {"in", "equals", "not-equals"}

OperatorLiterals == {"in", "equals", "not equals"}

OperationLiterals ==
  {"Percentile", "Multiplication", "Addition", "many2one", "Inverse", "None"}

DropEmptyRowLiterals == {"all", "none"}

SortOrderLiterals == {"Ascending", "Descending"}

OperationMessage ==
  ".operation must be one of: Percentile, Multiplication, Addition, many2one, Inverse, None"

\* validateCondition with field_key and step_name checked by type alone, so
\* that an empty string passes
validateCondition_TypeOnly(condition, prefix) ==
  IF IsNullish(condition) THEN Throw
  ELSE Return(
    PushIf(TypeOf(Get(condition, "field_key")) # "string",
           prefix \o ".field_key is required and must be a string")
    \o PushIf(TypeOf(Get(condition, "step_name")) # "string",
              prefix \o ".step_name is required and must be a string")
    \o PushIf(~Truthy(Get(condition, "operator"))
                \/ ~Includes(OperatorLiterals, Get(condition, "operator")),
              prefix \o ".operator must be one of: in, equals, not equals")
    \o PushIf(Get(condition, "value") = Undef \/ Get(condition, "value") = Null,
              prefix \o ".value is required"))

validateCondition(condition, prefix) ==
  IF IsNullish(condition) THEN Throw
  ELSE Return(
    PushIf(~Truthy(Get(condition, "field_key"))
             \/ TypeOf(Get(condition, "field_key")) # "string",
           prefix \o ".field_key is required and must be a string")
    \o PushIf(~Truthy(Get(condition, "step_name"))
                \/ TypeOf(Get(condition, "step_name")) # "string",
              prefix \o ".step_name is required and must be a string")
    \o PushIf(~Truthy(Get(condition, "operator"))
                \/ ~Includes(OperatorLiterals, Get(condition, "operator")),
              prefix \o ".operator must be one of: in, equals, not equals")
    \o PushIf(Get(condition, "value") = Undef \/ Get(condition, "value") = Null,
              prefix \o ".value is required"))

\* validateField with course checked even when it is absent
validateField_CourseRequired(field, prefix) ==
  IF IsNullish(field) THEN Throw
  ELSE Return(
    PushIf(~Truthy(Get(field, "field_key"))
             \/ TypeOf(Get(field, "field_key")) # "string",
           prefix \o ".field_key is required and must be a string")
    \o PushIf(~Truthy(Get(field, "step_name"))
                \/ TypeOf(Get(field, "step_name")) # "string",
              prefix \o ".step_name is required and must be a string")
    \o PushIf(TypeOf(Get(field, "course")) # "string",
              prefix \o ".course must be a string if provided"))

validateField(field, prefix) ==
  IF IsNullish(field) THEN Throw
  ELSE Return(
    PushIf(~Truthy(Get(field, "field_key"))
             \/ TypeOf(Get(field, "field_key")) # "string",
           prefix \o ".field_key is required and must be a string")
    \o PushIf(~Truthy(Get(field, "step_name"))
                \/ TypeOf(Get(field, "step_name")) # "string",
              prefix \o ".step_name is required and must be a string")
    \o PushIf(Truthy(Get(field, "course"))
                /\ TypeOf(Get(field, "course")) # "string",
              prefix \o ".course must be a string if provided"))

\* validateScoreMethod with value checked by truthiness, so that 0 and ""
\* count as missing
validateScoreMethod_FalsyValue(scoreMethod, prefix) ==
  IF IsNullish(scoreMethod) THEN Throw
  ELSE Return(
    PushIf(~Truthy(Get(scoreMethod, "value")), prefix \o ".value is required")
    \o PushIf(~Truthy(Get(scoreMethod, "operation"))
                \/ ~Includes(OperationLiterals, Get(scoreMethod, "operation")),
              prefix \o OperationMessage)
    \o PushIf(Truthy(Get(scoreMethod, "dropEmptyRow"))
                /\ ~Includes(DropEmptyRowLiterals, Get(scoreMethod, "dropEmptyRow")),
              prefix \o ".dropEmptyRow must be either 'all' or 'none' if provided"))

validateScoreMethod(scoreMethod, prefix) ==
  IF IsNullish(scoreMethod) THEN Throw
  ELSE Return(
    PushIf(Get(scoreMethod, "value") = Undef \/ Get(scoreMethod, "value") = Null,
           prefix \o ".value is required")
    \o PushIf(~Truthy(Get(scoreMethod, "operation"))
                \/ ~Includes(OperationLiterals, Get(scoreMethod, "operation")),
              prefix \o OperationMessage)
    \o PushIf(Truthy(Get(scoreMethod, "dropEmptyRow"))
                /\ ~Includes(DropEmptyRowLiterals, Get(scoreMethod, "dropEmptyRow")),
              prefix \o ".dropEmptyRow must be either 'all' or 'none' if provided"))

\* the option elements checked up to the first one that is no string
OptionErrors_StopAtFirst(option, prefix) ==
  LET outs == [m \in 1..Len(option.a) |->
                 Return(PushIf(TypeOf(option.a[m]) # "string",
                               prefix \o ".option[" \o Index(m) \o "] must be a string"))]
  IN ForEachPush_StopAtFirstError(outs).errors

\* assignMethod.option.forEach(...): one error per element that is no string
OptionErrors(option, prefix) ==
  LET outs == [m \in 1..Len(option.a) |->
                 Return(PushIf(TypeOf(option.a[m]) # "string",
                               prefix \o ".option[" \o Index(m) \o "] must be a string"))]
  IN ForEachPush(outs).errors

\* validateAssignMethod with value checked by truthiness too, so that 0 is
\* reported
validateAssignMethod_FalsyValue(assignMethod, prefix) ==
  IF IsNullish(assignMethod) THEN Throw
  ELSE LET option == Get(assignMethod, "option") IN Return(
    PushIf(~Truthy(Get(assignMethod, "value"))
             \/ TypeOf(Get(assignMethod, "value")) # "number",
           prefix \o ".value must be a number")
    \o (IF ~Truthy(option)
          THEN <<prefix \o ".option is required">>
        ELSE IF TypeOf(option) # "string" /\ ~IsArray(option)
          THEN <<prefix \o ".option must be a string or array of strings">>
        ELSE IF IsArray(option)
          THEN OptionErrors(option, prefix)
        ELSE <<>>))

validateAssignMethod(assignMethod, prefix) ==
  IF IsNullish(assignMethod) THEN Throw
  ELSE LET option == Get(assignMethod, "option") IN Return(
    PushIf(TypeOf(Get(assignMethod, "value")) # "number",
           prefix \o ".value must be a number")
    \o (IF ~Truthy(option)
          THEN <<prefix \o ".option is required">>
        ELSE IF TypeOf(option) # "string" /\ ~IsArray(option)
          THEN <<prefix \o ".option must be a string or array of strings">>
        ELSE IF IsArray(option)
          THEN OptionErrors(option, prefix)
        ELSE <<>>))

\* validateDataBlock returning as soon as if is found to be no array
validateDataBlock_ReturnOnBadIf(dataBlock, prefix) ==
  IF IsNullish(dataBlock) THEN Throw
  ELSE
    LET if == Get(dataBlock, "if")
        get == Get(dataBlock, "get")
    IN IF ~IsArray(if) THEN Return(<<prefix \o ".if must be an array">>)
       ELSE Then(
         ForEachPush([k \in 1..Len(if.a) |->
           validateCondition(if.a[k], prefix \o ".if[" \o Index(k) \o "]")]),
         IF ~IsArray(get) THEN Return(<<prefix \o ".get must be an array">>)
         ELSE ForEachPush([k \in 1..Len(get.a) |->
                validateField(get.a[k], prefix \o ".get[" \o Index(k) \o "]")]))

validateDataBlock(dataBlock, prefix) ==
  IF IsNullish(dataBlock) THEN Throw
  ELSE
    LET if == Get(dataBlock, "if")
        get == Get(dataBlock, "get")
    IN Then(
         IF ~IsArray(if) THEN Return(<<prefix \o ".if must be an array">>)
         ELSE ForEachPush([k \in 1..Len(if.a) |->
                validateCondition(if.a[k], prefix \o ".if[" \o Index(k) \o "]")]),
         IF ~IsArray(get) THEN Return(<<prefix \o ".get must be an array">>)
         ELSE ForEachPush([k \in 1..Len(get.a) |->
                validateField(get.a[k], prefix \o ".get[" \o Index(k) \o "]")]))

\* ruleIndex is the one-based position of the rule in query.rules
validateRule(rule, ruleIndex) ==
  IF IsNullish(rule) THEN Throw
  ELSE
    LET rulePrefix == "Rule[" \o Index(ruleIndex) \o "]"
        Data == Get(rule, "Data")
        scoreMethod == Get(rule, "scoreMethod")
        assignMethod == Get(rule, "assignMethod")
    IN Then(
         IF ~IsArray(Data) THEN Return(<<rulePrefix \o ".Data must be an array">>)
         ELSE ForEachPush([j \in 1..Len(Data.a) |->
                validateDataBlock(Data.a[j], rulePrefix \o ".Data[" \o Index(j) \o "]")]),
         Then(
           IF ~Truthy(scoreMethod) THEN Return(<<>>)
           ELSE IF ~IsArray(scoreMethod)
             THEN Return(<<rulePrefix \o ".scoreMethod must be an array">>)
           ELSE ForEachPush([k \in 1..Len(scoreMethod.a) |->
                  validateScoreMethod(scoreMethod.a[k],
                    rulePrefix \o ".scoreMethod[" \o Index(k) \o "]")]),
           IF ~Truthy(assignMethod) THEN Return(<<>>)
           ELSE IF ~IsArray(assignMethod)
             THEN Return(<<rulePrefix \o ".assignMethod must be an array">>)
           ELSE ForEachPush([k \in 1..Len(assignMethod.a) |->
                  validateAssignMethod(assignMethod.a[k],
                    rulePrefix \o ".assignMethod[" \o Index(k) \o "]")])))

validateSortMethod(sortMethod, prefix) ==
  IF IsNullish(sortMethod) THEN Throw
  ELSE
    LET Data == Get(sortMethod, "Data")
        sortOrder == Get(sortMethod, "sortOrder")
    IN Then(
         IF ~IsArray(Data) THEN Return(<<prefix \o ".Data must be an array">>)
         ELSE ForEachPush([j \in 1..Len(Data.a) |->
                validateDataBlock(Data.a[j], prefix \o ".Data[" \o Index(j) \o "]")]),
         Return(PushIf(~Truthy(sortOrder) \/ ~Includes(SortOrderLiterals, sortOrder),
                       prefix \o ".sortOrder must be either 'Ascending' or 'Descending'")))

\* validateSelection with quantity.sortOrder checked for presence alone
validateSelection_AnySortOrder(selection, selectionIndex) ==
  IF IsNullish(selection) THEN Throw
  ELSE
    LET selectionPrefix == "Selection[" \o Index(selectionIndex) \o "]"
        quantity == Get(selection, "quantity")
        sortMethod == Get(selection, "sortMethod")
    IN Then(
         IF ~Truthy(quantity) \/ TypeOf(quantity) # "object"
           THEN Return(<<selectionPrefix \o ".quantity is required and must be an object">>)
         ELSE Return(PushIf(~Truthy(Get(quantity, "sortOrder")),
                selectionPrefix
                  \o ".quantity.sortOrder must be either 'Ascending' or 'Descending'")),
         IF ~IsArray(sortMethod)
           THEN Return(<<selectionPrefix \o ".sortMethod must be an array">>)
         ELSE ForEachPush([k \in 1..Len(sortMethod.a) |->
                validateSortMethod(sortMethod.a[k],
                  selectionPrefix \o ".sortMethod[" \o Index(k) \o "]")]))

\* selectionIndex is the one-based position of the entry in query.Selection
validateSelection(selection, selectionIndex) ==
  IF IsNullish(selection) THEN Throw
  ELSE
    LET selectionPrefix == "Selection[" \o Index(selectionIndex) \o "]"
        quantity == Get(selection, "quantity")
        sortMethod == Get(selection, "sortMethod")
    IN Then(
         IF ~Truthy(quantity) \/ TypeOf(quantity) # "object"
           THEN Return(<<selectionPrefix \o ".quantity is required and must be an object">>)
         ELSE Return(PushIf(~Truthy(Get(quantity, "sortOrder"))
                              \/ ~Includes(SortOrderLiterals, Get(quantity, "sortOrder")),
                selectionPrefix
                  \o ".quantity.sortOrder must be either 'Ascending' or 'Descending'")),
         IF ~IsArray(sortMethod)
           THEN Return(<<selectionPrefix \o ".sortMethod must be an array">>)
         ELSE ForEachPush([k \in 1..Len(sortMethod.a) |->
                validateSortMethod(sortMethod.a[k],
                  selectionPrefix \o ".sortMethod[" \o Index(k) \o "]")]))

\* validateQuery with Selection validated before rules
validateQueryErrors_SelectionFirst(q) ==
  IF IsNullish(q) THEN Throw
  ELSE
    LET rules == Get(q, "rules")
        Selection == Get(q, "Selection")
        scoreMethod == Get(q, "scoreMethod")
    IN Then(
         IF ~IsArray(Selection) THEN Return(<<"Selection must be an array">>)
         ELSE ForEachPush([i \in 1..Len(Selection.a) |->
                validateSelection(Selection.a[i], i)]),
         Then(
           IF ~IsArray(rules) THEN Return(<<"Rules must be an array">>)
           ELSE ForEachPush([i \in 1..Len(rules.a) |-> validateRule(rules.a[i], i)]),
           IF ~IsArray(scoreMethod) THEN Return(<<"scoreMethod must be an array">>)
           ELSE ForEachPush([i \in 1..Len(scoreMethod.a) |->
                  validateScoreMethod(scoreMethod.a[i],
                    "scoreMethod[" \o Index(i) \o "]")])))

\* the errors list built by validateQuery, or thrown
validateQueryErrors(q) ==
  IF IsNullish(q) THEN Throw
  ELSE
    LET rules == Get(q, "rules")
        Selection == Get(q, "Selection")
        scoreMethod == Get(q, "scoreMethod")
    IN Then(
         IF ~IsArray(rules) THEN Return(<<"Rules must be an array">>)
         ELSE ForEachPush([i \in 1..Len(rules.a) |-> validateRule(rules.a[i], i)]),
         Then(
           IF ~IsArray(Selection) THEN Return(<<"Selection must be an array">>)
           ELSE ForEachPush([i \in 1..Len(Selection.a) |->
                  validateSelection(Selection.a[i], i)]),
           IF ~IsArray(scoreMethod) THEN Return(<<"scoreMethod must be an array">>)
           ELSE ForEachPush([i \in 1..Len(scoreMethod.a) |->
                  validateScoreMethod(scoreMethod.a[i],
                    "scoreMethod[" \o Index(i) \o "]")])))

\* what validateQuery returns when it returns
\* a result whose isValid does not depend on the errors
ValidationResult_NeverInvalid(errors) == [isValid |-> TRUE, errors |-> errors]

ValidationResult(errors) == [isValid |-> Len(errors) = 0, errors |-> errors]

\* validateQuery with an errors list that outlives the call: it still holds
\* the errors of the App's latest validation
validateQuery_SharedErrors(q) ==
  LET out == validateQueryErrors(q)
  IN IF out.thrown THEN [thrown |-> TRUE]
     ELSE [thrown |-> FALSE,
           result |-> ValidationResult(validationResult.errors \o out.errors)]

validateQuery(q) ==
  LET out == validateQueryErrors(q)
  IN IF out.thrown THEN [thrown |-> TRUE]
     ELSE [thrown |-> FALSE, result |-> ValidationResult(out.errors)]

\* validatePartialQuery reporting only a missing field_key
validatePartialQueryErrors_FieldKeyOnly(q) ==
  IF IsNullish(q) THEN Throw
  ELSE
    LET rules == Get(q, "rules")
        OfField(field, path) ==
          IF IsNullish(field) THEN Throw
          ELSE Return(PushIf(~Truthy(Get(field, "field_key")),
                             path \o " is missing required fields"))
        OfBlock(dataBlock, path) ==
          IF IsNullish(dataBlock) THEN Throw
          ELSE LET get == Get(dataBlock, "get")
               IN IF Truthy(get) /\ IsArray(get)
                    THEN ForEachPush([k \in 1..Len(get.a) |->
                           OfField(get.a[k], path \o ".get[" \o Index(k) \o "]")])
                  ELSE Return(<<>>)
        OfRule(rule, path) ==
          IF IsNullish(rule) THEN Throw
          ELSE LET Data == Get(rule, "Data")
               IN IF Truthy(Data) /\ IsArray(Data)
                    THEN ForEachPush([j \in 1..Len(Data.a) |->
                           OfBlock(Data.a[j], path \o ".Data[" \o Index(j) \o "]")])
                  ELSE Return(<<>>)
    IN IF Truthy(rules) /\ IsArray(rules)
         THEN ForEachPush([i \in 1..Len(rules.a) |->
                OfRule(rules.a[i], "Rule[" \o Index(i) \o "]")])
       ELSE Return(<<>>)

\* the errors list built by validatePartialQuery, or thrown: OfRule, OfBlock
\* and OfField are the bodies of its three nested forEach callbacks
validatePartialQueryErrors(q) ==
  IF IsNullish(q) THEN Throw
  ELSE
    LET rules == Get(q, "rules")
        OfField(field, path) ==
          IF IsNullish(field) THEN Throw
          ELSE Return(PushIf(~Truthy(Get(field, "field_key"))
                               \/ ~Truthy(Get(field, "step_name")),
                             path \o " is missing required fields"))
        OfBlock(dataBlock, path) ==
          IF IsNullish(dataBlock) THEN Throw
          ELSE LET get == Get(dataBlock, "get")
               IN IF Truthy(get) /\ IsArray(get)
                    THEN ForEachPush([k \in 1..Len(get.a) |->
                           OfField(get.a[k], path \o ".get[" \o Index(k) \o "]")])
                  ELSE Return(<<>>)
        OfRule(rule, path) ==
          IF IsNullish(rule) THEN Throw
          ELSE LET Data == Get(rule, "Data")
               IN IF Truthy(Data) /\ IsArray(Data)
                    THEN ForEachPush([j \in 1..Len(Data.a) |->
                           OfBlock(Data.a[j], path \o ".Data[" \o Index(j) \o "]")])
                  ELSE Return(<<>>)
    IN IF Truthy(rules) /\ IsArray(rules)
         THEN ForEachPush([i \in 1..Len(rules.a) |->
                OfRule(rules.a[i], "Rule[" \o Index(i) \o "]")])
       ELSE Return(<<>>)

validatePartialQuery(q) ==
  LET out == validatePartialQueryErrors(q)
  IN IF out.thrown THEN [thrown |-> TRUE]
     ELSE [thrown |-> FALSE, result |-> ValidationResult(out.errors)]

(***************************************************************************)
(* The documents the validator is applied to.  A well-formed skeleton      *)
(* carries one node, or one container, drawn from the inputs below at a    *)
(* position of its list; the entries before it are well-formed.            *)
(***************************************************************************)
MaxIndex == 1

Indices == 0..MaxIndex

\* positions <<i, j, k>> of a node below three nested lists
Positions3 == {p \in Indices \X Indices \X Indices : p[1] + p[2] + p[3] <= MaxIndex}

\* positions <<i, k>> of a node below two nested lists
Positions2 == {p \in Indices \X Indices : p[1] + p[2] <= MaxIndex}

GoodCondition ==
  MkObj([field_key |-> Str("present_class"), step_name |-> Str("education info step"),
         operator |-> Str("in"), value |-> Arr(<<Str("Class 12")>>)])

GoodField ==
  MkObj([field_key |-> Str("familyIncome"), step_name |-> Str("personal info step")])

GoodScoreMethod == MkObj([value |-> Str("Inverse"), operation |-> Str("Percentile")])

GoodTopScoreMethod ==
  MkObj([value |-> Str("Addition"), operation |-> Str("many2one"),
         dropEmptyRow |-> Str("all")])

GoodAssignMethod == MkObj([value |-> Num(15), option |-> Str("Orphan")])

DataBlockOf(ifs, gets) == MkObj([if |-> ifs, get |-> gets])

GoodDataBlock == DataBlockOf(Arr(<<>>), Arr(<<GoodField>>))

RuleOf(Data, scoreMethod, assignMethod) ==
  MkObj([Data |-> Data, scoreMethod |-> scoreMethod, assignMethod |-> assignMethod])

GoodRule == RuleOf(Arr(<<GoodDataBlock>>), Arr(<<GoodScoreMethod>>), Undef)

SortMethodOf(Data, sortOrder) == MkObj([Data |-> Data, sortOrder |-> sortOrder])

GoodSortMethod == SortMethodOf(Arr(<<GoodDataBlock>>), Str("Descending"))

QuantityOf(sortOrder) == MkObj([sortOrder |-> sortOrder])

SelectionOf(quantity, sortMethod) ==
  MkObj([quantity |-> quantity, sortMethod |-> sortMethod])

GoodSelection == SelectionOf(QuantityOf(Str("Ascending")), Arr(<<GoodSortMethod>>))

DocumentOf(rules, Selection, scoreMethod) ==
  MkObj([rules |-> rules, Selection |-> Selection, scoreMethod |-> scoreMethod])

\* the list holding n copies of pad and then x
At(n, pad, x) == Arr([m \in 1..(n + 1) |-> IF m <= n THEN pad ELSE x])

\* a document with data block b at rules[i].Data[j]
BlockInRule(b, i, j) ==
  DocumentOf(At(i, GoodRule, RuleOf(At(j, GoodDataBlock, b), Arr(<<GoodScoreMethod>>), Undef)),
             Arr(<<>>), Arr(<<GoodTopScoreMethod>>))

\* a document with data block b at Selection[i].sortMethod[j].Data[0]
BlockInSort(b, i, j) ==
  DocumentOf(Arr(<<GoodRule>>),
             At(i, GoodSelection,
                SelectionOf(QuantityOf(Str("Descending")),
                            At(j, GoodSortMethod, SortMethodOf(Arr(<<b>>), Str("Ascending"))))),
             Arr(<<>>))

\* values that are no object: a node of the wrong kind
NonObjects == {Null, Undef, Num(5)}

FieldKeyInputs == {Undef, Str(""), Str("present_class"), Num(7)}

StepNameInputs == {Undef, Str(""), Str("education info step"), Null}

OperatorInputs ==
  {Undef, Str("in"), Str("equals"), Str("not equals"), Str("not-equals"),
   Str("between"), Arr(<<Str("in")>>)}

ConditionValueInputs == {Undef, Null, Arr(<<Str("Class 12")>>), Num(0)}

ConditionInputs ==
  {MkObj([field_key |-> fk, step_name |-> sn, operator |-> op, value |-> v]) :
     fk \in FieldKeyInputs, sn \in StepNameInputs, op \in OperatorInputs,
     v \in ConditionValueInputs}
  \cup NonObjects

CourseInputs ==
  {Undef, Null, Str("Class 12"), Str(""), Num(0), Num(12), Bool(FALSE), Bool(TRUE),
   Arr(<<Str("Class 12")>>)}

FieldInputs ==
  {MkObj([field_key |-> fk, step_name |-> sn, course |-> c]) :
     fk \in FieldKeyInputs, sn \in StepNameInputs, c \in CourseInputs}
  \cup NonObjects

\* the conditions and fields placed under a sort method
SortConditionInputs ==
  {MkObj([field_key |-> fk, step_name |-> sn, operator |-> op,
          value |-> Arr(<<Str("Class 12")>>)]) :
     fk \in FieldKeyInputs, sn \in StepNameInputs, op \in {Str("equals"), Str("between")}}
  \cup NonObjects

SortFieldInputs ==
  {MkObj([field_key |-> fk, step_name |-> Str("questions"), course |-> c]) :
     fk \in {Undef, Str("percentage")}, c \in CourseInputs}
  \cup NonObjects

ConditionDocuments ==
  {BlockInRule(DataBlockOf(At(p[3], GoodCondition, c), Arr(<<GoodField>>)), p[1], p[2]) :
     c \in ConditionInputs, p \in Positions3}
  \cup {BlockInSort(DataBlockOf(At(p[3], GoodCondition, c), Arr(<<>>)), p[1], p[2]) :
          c \in SortConditionInputs, p \in Positions3}

FieldDocuments ==
  {BlockInRule(DataBlockOf(Arr(<<>>), At(p[3], GoodField, f)), p[1], p[2]) :
     f \in FieldInputs, p \in Positions3}
  \cup {BlockInSort(DataBlockOf(Arr(<<GoodCondition>>), At(p[3], GoodField, f)), p[1], p[2]) :
          f \in SortFieldInputs, p \in Positions3}

ScoreValueInputs == {Undef, Null, Str("Inverse"), Str(""), Num(0), Num(2)}

OperationInputs ==
  {Undef, Str("Percentile"), Str("Multiplication"), Str("Addition"), Str("many2one"),
   Str("Inverse"), Str("None"), Str("Sum"), Str("percentile"), Str(""), Num(1)}

DropEmptyRowInputs == {Undef, Str("all"), Str("none"), Str("some"), Str(""), Bool(TRUE)}

ScoreMethodInputs ==
  {MkObj([value |-> v, operation |-> op, dropEmptyRow |-> d]) :
     v \in ScoreValueInputs, op \in OperationInputs, d \in DropEmptyRowInputs}
  \cup NonObjects

AssignValueInputs == {Undef, Null, Num(15), Num(0), Str("15")}

OptionInputs ==
  {Undef, Null, Str(""), Str("Orphan"), Str("default"), Num(3), Arr(<<>>),
   Arr(<<Str("a"), Str("isEmpty")>>), Arr(<<Str("a"), Num(1)>>),
   Arr(<<Null, Str("b"), Num(2)>>), Obj(<<>>)}

AssignMethodInputs ==
  {MkObj([value |-> v, option |-> o]) : v \in AssignValueInputs, o \in OptionInputs}
  \cup NonObjects

\* score method sm at rules[i].scoreMethod[k], or at the top-level scoreMethod[k]
ScoreMethodDocuments ==
  {DocumentOf(At(p[1], GoodRule,
                 RuleOf(Arr(<<GoodDataBlock>>), At(p[2], GoodScoreMethod, sm), Undef)),
              Arr(<<GoodSelection>>), Arr(<<>>)) :
     sm \in ScoreMethodInputs, p \in Positions2}
  \cup {DocumentOf(Arr(<<>>), Arr(<<>>), At(k, GoodTopScoreMethod, sm)) :
          sm \in ScoreMethodInputs, k \in Indices}

\* assign method am at rules[i].assignMethod[k]
AssignMethodDocuments ==
  {DocumentOf(At(p[1], GoodRule,
                 RuleOf(Arr(<<GoodDataBlock>>), Undef, At(p[2], GoodAssignMethod, am))),
              Arr(<<>>), Arr(<<GoodTopScoreMethod>>)) :
     am \in AssignMethodInputs, p \in Positions2}

\* values that are no array: a container of the wrong kind
NonArrays == {Undef, Null, Str("x"), Obj(<<>>)}

\* what an optional container (a rule's scoreMethod or assignMethod) may hold
\* besides a list
OptionalNonArrays == NonArrays \cup {Num(0), Str(""), Bool(FALSE), Num(4), Bool(TRUE)}

BadCondition == MkObj([field_key |-> Str(""), operator |-> Str("between")])

BadField == MkObj([step_name |-> Str("questions"), course |-> Num(12)])

BadScoreMethod == MkObj([operation |-> Str("Sum"), dropEmptyRow |-> Str("some")])

BadAssignMethod == MkObj([value |-> Str("15"), option |-> Arr(<<Str("a"), Num(1)>>)])

IfInputs == NonArrays \cup {Arr(<<>>), Arr(<<BadCondition>>)}

GetInputs == NonArrays \cup {Arr(<<GoodField>>), Arr(<<BadField>>)}

DataInputs ==
  NonArrays \cup {Arr(<<DataBlockOf(i, g)>>) : i \in IfInputs, g \in GetInputs}
  \cup {Arr(<<b>>) : b \in NonObjects}

\* the containers of a rule
RuleContainerDocuments ==
  {DocumentOf(At(i, GoodRule, RuleOf(d, Arr(<<BadScoreMethod>>), Undef)),
              Arr(<<GoodSelection>>), Arr(<<GoodTopScoreMethod>>)) :
     d \in DataInputs, i \in Indices}
  \cup {DocumentOf(At(i, GoodRule, RuleOf(Arr(<<GoodDataBlock>>), sm, am)),
                   Arr(<<>>), Arr(<<>>)) :
          sm \in OptionalNonArrays \cup {Arr(<<GoodScoreMethod>>), Arr(<<BadScoreMethod>>)},
          am \in OptionalNonArrays \cup {Arr(<<GoodAssignMethod>>), Arr(<<BadAssignMethod>>)},
          i \in Indices}
  \cup {DocumentOf(At(i, GoodRule, r), Arr(<<>>), Arr(<<>>)) :
          r \in NonObjects \cup {Arr(<<>>), Str("rule")}, i \in Indices}

SortOrderInputs == {Undef, Null, Str("Ascending"), Str("Descending"), Str("Up"), Str("")}

QuantityInputs ==
  {QuantityOf(so) : so \in SortOrderInputs}
  \cup {Undef, Null, Str("Ascending"), Num(10), Arr(<<>>)}

SortMethodInputs ==
  {SortMethodOf(d, so) :
     d \in NonArrays \cup {Arr(<<GoodDataBlock>>),
                           Arr(<<DataBlockOf(Arr(<<BadCondition>>), Null)>>)},
     so \in SortOrderInputs}
  \cup NonObjects

SortMethodsInputs ==
  NonArrays \cup {Arr(<<>>)}
  \cup {At(j, GoodSortMethod, sm) : sm \in SortMethodInputs, j \in Indices}

SelectionInputs ==
  {SelectionOf(q, Arr(<<GoodSortMethod>>)) : q \in QuantityInputs}
  \cup {SelectionOf(q, sms) :
          q \in {QuantityOf(Str("Ascending")), QuantityOf(Str("Up")), Undef},
          sms \in SortMethodsInputs}
  \cup NonObjects

\* selection s at Selection[i]
SelectionDocuments ==
  {DocumentOf(Arr(<<GoodRule>>), At(i, GoodSelection, s), Arr(<<GoodTopScoreMethod>>)) :
     s \in SelectionInputs, i \in Indices}

\* what the three top-level properties may hold
TopLevelInputs == NonArrays \cup {Arr(<<>>)}

TopLevelDocuments ==
  {DocumentOf(r, s, m) : r \in TopLevelInputs, s \in TopLevelInputs, m \in TopLevelInputs}
  \cup NonObjects \cup {Arr(<<>>), Str("query")}

\* documents with violations in several subtrees at once
WorseRule ==
  RuleOf(Arr(<<DataBlockOf(Arr(<<BadCondition, GoodCondition, BadCondition>>),
                           Arr(<<BadField, BadField>>)),
               DataBlockOf(Null, Arr(<<BadField>>))>>),
         Arr(<<BadScoreMethod, GoodScoreMethod, BadScoreMethod>>),
         Arr(<<BadAssignMethod, GoodAssignMethod>>))

BadSelection ==
  SelectionOf(QuantityOf(Str("Up")),
              Arr(<<SortMethodOf(Arr(<<DataBlockOf(Arr(<<BadCondition>>), Arr(<<BadField>>))>>),
                                 Str("Up")),
                    SortMethodOf(Null, Str("Ascending"))>>))

RulesInputs ==
  {Null, Arr(<<>>), Arr(<<GoodRule>>), Arr(<<WorseRule>>), Arr(<<WorseRule, GoodRule>>),
   Arr(<<GoodRule, WorseRule, WorseRule>>), Arr(<<WorseRule, Null>>),
   Arr(<<RuleOf(Null, Str("x"), Num(1)), WorseRule>>)}

SelectionsInputs ==
  {Null, Arr(<<>>), Arr(<<GoodSelection>>), Arr(<<BadSelection>>),
   Arr(<<BadSelection, GoodSelection, BadSelection>>),
   Arr(<<SelectionOf(Undef, Undef), BadSelection>>), Arr(<<BadSelection, Undef>>)}

ScoreMethodsInputs ==
  {Undef, Arr(<<>>), Arr(<<GoodTopScoreMethod>>), Arr(<<BadScoreMethod>>),
   Arr(<<BadScoreMethod, GoodTopScoreMethod, BadScoreMethod>>),
   Arr(<<BadScoreMethod, Null>>)}

MixedDocuments ==
  {DocumentOf(r, s, m) : r \in RulesInputs, s \in SelectionsInputs, m \in ScoreMethodsInputs}

\* the minimal document of scenario 1
Scenario1 ==
  DocumentOf(
    Arr(<<RuleOf(Arr(<<DataBlockOf(Arr(<<>>),
                         Arr(<<MkObj([field_key |-> Str("familyIncome"),
                                      step_name |-> Str("personal info step")])>>))>>),
                 Arr(<<MkObj([value |-> Str("Inverse"), operation |-> Str("Percentile")])>>),
                 Undef)>>),
    Arr(<<>>),
    Arr(<<MkObj([value |-> Str("Addition"), operation |-> Str("many2one"),
                 dropEmptyRow |-> Str("all")])>>))

\* scenario 2: an assign method whose value is the string "15"
Scenario2 ==
  DocumentOf(
    Arr(<<RuleOf(Arr(<<GoodDataBlock>>), Undef,
                 Arr(<<MkObj([value |-> Str("15"), option |-> Str("Orphan")])>>))>>),
    Arr(<<>>), Arr(<<>>))

\* scenario 3: a selection whose quantity has the sort order "Up"
Scenario3 ==
  DocumentOf(Arr(<<>>),
             Arr(<<SelectionOf(QuantityOf(Str("Up")), Arr(<<>>))>>),
             Arr(<<>>))

ScenarioDocuments == {Scenario1, Scenario2, Scenario3}

Documents ==
  ConditionDocuments \cup FieldDocuments \cup ScoreMethodDocuments
  \cup AssignMethodDocuments \cup RuleContainerDocuments \cup SelectionDocuments
  \cup TopLevelDocuments \cup MixedDocuments \cup ScenarioDocuments

(***************************************************************************)
(* The store (useQueryStore).  An operation is a function of the store's    *)
(* state: it gives the new query, or raises when a list method is called   *)
(* on a value that has none, and then set() has stored nothing.            *)
(***************************************************************************)
\* a variable that holds nothing yet: no call made, no file exported
NoValue == [t |-> "none"]

\* what an expression evaluates to, or that it raised
Value(v) == [thrown |-> FALSE, value |-> v]

Raise == [thrown |-> TRUE]

initialQuery == DocumentOf(Arr(<<>>), Arr(<<>>), Arr(<<>>))

\* the step_name of each entry of defaultStepOptions
defaultStepOptions ==
  <<"personal info step", "education info step", "application info step", "questions">>

\* a || b
Or(a, b) == IF Truthy(a) THEN a ELSE b

\* { ...q, [key]: value }
Spread(q, key, value) ==
  LET keys == (IF q.t = "object" THEN DOMAIN q.f ELSE {}) \cup {key}
  IN MkObj([k \in keys |-> IF k = key THEN value ELSE q.f[k]])

\* the characters of a string, as the string values an iteration yields
Characters(str) == [n \in 1..Len(str) |-> Str(SubSeq(str, n, n))]

\* list.map((x, i) => i === index ? value : x): only an array has map
MapReplace(list, index, value) ==
  IF ~IsArray(list) THEN Raise
  ELSE Value(Arr([n \in 1..Len(list.a) |-> IF n - 1 = index THEN value ELSE list.a[n]]))

\* [value, ...list]: the new entry put first
SpreadAppend_Prepend(list, value) ==
  IF IsArray(list) THEN Value(Arr(<<value>> \o list.a))
  ELSE IF list.t = "string" THEN Value(Arr(<<value>> \o Characters(list.s)))
  ELSE Raise

\* [...list, value]: an array and a string are iterable, the other values not
SpreadAppend(list, value) ==
  IF IsArray(list) THEN Value(Arr(Append(list.a, value)))
  ELSE IF list.t = "string" THEN Value(Arr(Append(Characters(list.s), value)))
  ELSE Raise

\* list.filter((_, i) => i !== index): only an array has filter
FilterOut(list, index) ==
  IF ~IsArray(list) THEN Raise
  ELSE LET keep == {n \in 1..Len(list.a) : n - 1 # index}
           Nth(m) == CHOOSE n \in keep : Cardinality({j \in keep : j < n}) = m - 1
       IN Value(Arr([m \in 1..Cardinality(keep) |-> list.a[Nth(m)]]))

\* set(state => ({query: {...state.query, [key]: list}})) for a computed list
SetList(q, key, out) == IF out.thrown THEN Raise ELSE Value(Spread(q, key, out.value))

updateRule(q, index, rule) == SetList(q, "rules", MapReplace(Get(q, "rules"), index, rule))

addRule(q, rule) == SetList(q, "rules", SpreadAppend(Get(q, "rules"), rule))

removeRule(q, index) == SetList(q, "rules", FilterOut(Get(q, "rules"), index))

updateSelection(q, index, selection) ==
  SetList(q, "Selection", MapReplace(Get(q, "Selection"), index, selection))

addSelection(q, selection) ==
  SetList(q, "Selection", SpreadAppend(Get(q, "Selection"), selection))

removeSelection(q, index) ==
  SetList(q, "Selection", FilterOut(Get(q, "Selection"), index))

updateScoreMethod(q, scoreMethods) == Value(Spread(q, "scoreMethod", scoreMethods))

updateRules(q, rules) == Value(Spread(q, "rules", rules))

updateSelections(q, selections) == Value(Spread(q, "Selection", selections))

\* importQuery(queryData): reading a property of null or undefined raises
\* inside the try block, and the catch returns false with nothing stored
importQuery(queryData) ==
  IF IsNullish(queryData) THEN [success |-> FALSE]
  ELSE [success |-> TRUE,
        query |-> DocumentOf(Or(Get(queryData, "rules"), Arr(<<>>)),
                             Or(Get(queryData, "Selection"), Arr(<<>>)),
                             Or(Get(queryData, "scoreMethod"), Arr(<<>>)))]

(***************************************************************************)
(* Export and import.  A JSON text is modelled by the value it denotes:    *)
(* JSON.stringify leaves out a property that is undefined and writes an    *)
(* undefined element of an array as null; JSON.parse raises on a text that *)
(* is no JSON.                                                             *)
(***************************************************************************)
RECURSIVE JsonOf(_)
JsonOf(v) ==
  CASE v.t = "array" ->
         Arr([n \in 1..Len(v.a) |-> IF v.a[n] = Undef THEN Null ELSE JsonOf(v.a[n])])
    [] v.t = "object" ->
         Obj([k \in {j \in DOMAIN v.f : v.f[j] # Undef} |-> JsonOf(v.f[k])])
    [] OTHER -> v

\* JSON.stringify(v, null, 2); it returns undefined for undefined
JSONstringify(v) == IF v = Undef THEN Undef ELSE [t |-> "text", json |-> JsonOf(v)]

\* JSON.parse(text)
JSONparse(text) == IF text.t = "text" THEN Value(text.json) ELSE Raise

\* the template object of handleExportTemplate
Template(q, created) ==
  MkObj([name |-> Str("Custom Query Template"), created |-> Str(created), query |-> q])

\* the queryData of handleImportTemplate taken to be the parsed file itself
QueryDataOf_NoTemplate(importedData) ==
  IF IsNullish(importedData) THEN Raise ELSE Value(importedData)

\* importedData.query || importedData
QueryDataOf(importedData) ==
  IF IsNullish(importedData) THEN Raise
  ELSE Value(Or(Get(importedData, "query"), importedData))

\* reader.onload of handleImportTemplate on the text of the chosen file: what
\* importQuery returned, or called when the try block raised before the call
handleImportTemplate(text) ==
  LET importedData == JSONparse(text)
      queryData == IF importedData.thrown THEN Raise ELSE QueryDataOf(importedData.value)
  IN IF queryData.thrown THEN [called |-> FALSE]
     ELSE [called |-> TRUE, returned |-> importQuery(queryData.value)]

(***************************************************************************)
(* The arguments of the store's operations, the values given to            *)
(* importQuery, the files chosen for import, and the documents under       *)
(* construction given to validatePartialQuery.                             *)
(***************************************************************************)
MaxLen == 2

\* the index argument of an operation; MaxLen is outside every list
IndexArgs == 0..MaxLen

\* a rule under construction: a condition, a field and an assign method are
\* not filled in yet
IncompleteRule ==
  RuleOf(Arr(<<DataBlockOf(Arr(<<BadCondition>>), Arr(<<GoodField, BadField>>))>>),
         Undef, Arr(<<BadAssignMethod>>))

RuleArgs == {GoodRule, IncompleteRule}

RulesArgs == {Arr(<<>>), Arr(<<IncompleteRule, GoodRule>>)}

SelectionArgs == {GoodSelection}

SelectionsArgs == {Arr(<<>>), Arr(<<BadSelection>>)}

ScoreMethodsArgs == {Arr(<<>>), Arr(<<GoodTopScoreMethod>>), Arr(<<BadScoreMethod>>)}

StepOptionsArgs == {<<>>, defaultStepOptions}

\* the sample query of loadSampleQuery, with two of its four assign methods
SampleQuery ==
  DocumentOf(
    Arr(<<RuleOf(Arr(<<GoodDataBlock>>),
                 Arr(<<GoodScoreMethod,
                       MkObj([value |-> Num(25), operation |-> Str("Multiplication")])>>),
                 Undef),
          RuleOf(Arr(<<DataBlockOf(Arr(<<>>),
                         Arr(<<MkObj([field_key |-> Str("otherPersonalDetails"),
                                      step_name |-> Str("personal info step")])>>))>>),
                 Undef,
                 Arr(<<MkObj([value |-> Num(0), option |-> Str("default")]),
                       MkObj([value |-> Num(15), option |-> Str("Orphan")])>>))>>),
    Arr(<<GoodSelection>>),
    Arr(<<GoodTopScoreMethod>>))

\* what importQuery may be given: values of every kind, documents with parts
\* absent, null or of the wrong kind, with a null rule, with a property that
\* is no part of a document, and a template
RawInputs ==
  {Undef, Null, Num(5), Str("x"), Bool(FALSE), Arr(<<>>), Obj(<<>>),
   SampleQuery,
   MkObj([rules |-> Arr(<<GoodRule>>)]),
   MkObj([rules |-> Null, Selection |-> Num(0), scoreMethod |-> Str("")]),
   MkObj([rules |-> Str("x"), Selection |-> Arr(<<>>), scoreMethod |-> Arr(<<>>)]),
   MkObj([rules |-> Arr(<<>>), Selection |-> Obj(<<>>), scoreMethod |-> Num(7)]),
   MkObj([rules |-> Arr(<<Null>>), Selection |-> Arr(<<>>), scoreMethod |-> Arr(<<>>)]),
   MkObj([rules |-> Arr(<<IncompleteRule>>), name |-> Str("mine")]),
   MkObj([query |-> Num(0), rules |-> Arr(<<GoodRule>>)]),
   Template(Scenario3, "2024-01-01T00:00:00.000Z")}

\* new Date().toISOString() at the time of the export
CreatedInputs == {"2024-01-01T00:00:00.000Z", "2025-06-30T12:00:00.000Z"}

\* the files chosen for import: texts that are no JSON, and the JSON texts of
\* the values above that JSON can denote
ImportFiles ==
  {[t |-> "text", json |-> JsonOf(raw)] : raw \in RawInputs \ {Undef}}
  \cup {[t |-> "garbage"]}

\* the documents passed around by several callers
CallerDocuments ==
  {initialQuery, Scenario2,
   DocumentOf(Arr(<<IncompleteRule, GoodRule>>), Null, Arr(<<BadScoreMethod>>)),
   DocumentOf(Arr(<<GoodRule, Null>>), Arr(<<>>), Arr(<<>>))}

\* the calls of validateQuery made on one document by callers outside the App
MaxCalls == 2

\* the get entries of a data block under construction
PartialFieldInputs ==
  {MkObj([field_key |-> fk, step_name |-> sn, course |-> c]) :
     fk \in FieldKeyInputs \cup {Null, Num(0)}, sn \in StepNameInputs \cup {Num(3)},
     c \in {Undef, Num(12)}}
  \cup NonObjects \cup {Str("familyIncome"), Arr(<<>>)}

\* a rule's Data list, and a block's get list, truthy or not, array or not
PartialListInputs == OptionalNonArrays \cup {Arr(<<>>)}

\* documents under construction: without Selection and scoreMethod, with
\* rules, Data and get lists absent or of the wrong kind, with rules without
\* conditions, score methods and assign methods
PartialDocuments ==
  {MkObj([rules |-> At(p[1], RuleOf(Arr(<<>>), Undef, Undef),
                       RuleOf(At(p[2], DataBlockOf(Undef, Arr(<<GoodField>>)),
                                 DataBlockOf(Undef, At(p[3], GoodField, f))),
                              Undef, Undef))]) :
     f \in PartialFieldInputs, p \in Positions3}
  \cup {MkObj([rules |-> r]) : r \in PartialListInputs}
  \cup {MkObj([rules |-> At(i, GoodRule, r), scoreMethod |-> Null]) :
          r \in NonObjects \cup {Str("rule"), Arr(<<>>)}
                \cup {RuleOf(d, Arr(<<>>), Arr(<<>>)) : d \in PartialListInputs}
                \cup {RuleOf(Arr(<<b>>), Undef, Undef) :
                        b \in NonObjects \cup {Str("block")}
                              \cup {DataBlockOf(Arr(<<>>), g) : g \in PartialListInputs}
                              \cup {DataBlockOf(Arr(<<BadCondition>>),
                                                Arr(<<BadField, GoodField, Obj(<<>>)>>))}},
          i \in Indices}
  \cup NonObjects \cup {Obj(<<>>), Arr(<<>>)}

(***************************************************************************)
(* The call: the App holds validationResult, initially {isValid: true,     *)
(* errors: []}, and its effect stores what validateQuery(query) returns;   *)
(* an exception leaves validationResult as it was.                         *)
(***************************************************************************)
InitialValidationResult == [isValid |-> TRUE, errors |-> <<>>]

NoOutcomes == [d \in CallerDocuments |-> NoValue]

\* the store as created, and nothing imported, exported or called yet
Idle ==
  /\ stepOptions = defaultStepOptions
  /\ importCall = NoValue
  /\ download = NoValue
  /\ partialResult = NoValue
  /\ outcomes = NoOutcomes
  /\ initialQueryObject = initialQuery

Init ==
  /\ query \in Documents
  /\ validationResult = InitialValidationResult
  /\ pc = "call"
  /\ Idle

ValidateQuery ==
  /\ pc = "call"
  /\ LET out == validateQuery(query)
     IN /\ pc' = IF out.thrown THEN "thrown" ELSE "returned"
        /\ validationResult' = IF out.thrown THEN validationResult ELSE out.result
  /\ UNCHANGED <<query, stepOptions, importCall, download, partialResult, outcomes,
                 initialQueryObject>>

Next == ValidateQuery

Spec == Init /\ [][Next]_vars

(***************************************************************************)
(* validatePartialQuery applied to a document under construction.          *)
(***************************************************************************)
PartialInit ==
  /\ query \in PartialDocuments \cup Documents
  /\ validationResult = InitialValidationResult
  /\ pc = "call"
  /\ Idle

ValidatePartialQuery ==
  /\ pc = "call"
  /\ LET out == validatePartialQuery(query)
     IN /\ pc' = IF out.thrown THEN "thrown" ELSE "returned"
        /\ partialResult' = out
  /\ UNCHANGED <<query, validationResult, stepOptions, importCall, download, outcomes,
                 initialQueryObject>>

PartialNext == ValidatePartialQuery

PartialSpec == PartialInit /\ [][PartialNext]_vars

(***************************************************************************)
(* The store's operations as the App and the builders call them.  Every    *)
(* operation that stores a query makes the App render with a new query     *)
(* object, which makes its validation effect due (pc = "call"); resetQuery *)
(* stores the one initialQuery object, and the effect is taken to be due   *)
(* after it as well.  The effect of a render runs before the next event is *)
(* handled, so an operation finds the effect done (pc = "returned"); an    *)
(* exception raised by the effect unmounts the App, and no operation       *)
(* follows it.                                                             *)
(***************************************************************************)
Mounted == pc = "returned"

\* set() without a new query object: the query is changed in place
Apply_InPlace(out) ==
  /\ Mounted
  /\ query' = IF out.thrown THEN query ELSE out.value
  /\ importCall' = NoValue
  /\ UNCHANGED <<validationResult, pc, stepOptions, download, partialResult, outcomes,
                 initialQueryObject>>

\* an operation that edits the store's query object in place: while that
\* object is initialQuery, the edit is made to initialQuery as well
Apply_MutatingInitial(out) ==
  /\ Mounted
  /\ query' = IF out.thrown THEN query ELSE out.value
  /\ pc' = IF out.thrown THEN pc ELSE "call"
  /\ importCall' = NoValue
  /\ initialQueryObject' =
       IF ~out.thrown /\ query = initialQueryObject THEN out.value ELSE initialQueryObject
  /\ UNCHANGED <<validationResult, stepOptions, download, partialResult, outcomes>>

\* an operation with the outcome out has run: set() stored the new query,
\* unless the operation raised
Apply(out) ==
  /\ Mounted
  /\ query' = IF out.thrown THEN query ELSE out.value
  /\ pc' = IF out.thrown THEN pc ELSE "call"
  /\ importCall' = NoValue
  /\ UNCHANGED <<validationResult, stepOptions, download, partialResult, outcomes,
                 initialQueryObject>>

\* importQuery(queryData) has returned ret
Imported(queryData, ret) ==
  /\ Mounted
  /\ query' = IF ret.success THEN ret.query ELSE query
  /\ pc' = IF ret.success THEN "call" ELSE pc
  /\ importCall' = [queryData |-> queryData, success |-> Bool(ret.success)]
  /\ UNCHANGED <<validationResult, stepOptions, download, partialResult, outcomes,
                 initialQueryObject>>

\* an add operation is taken while its list is shorter than MaxLen
Short(list) == IsArray(list) => Len(list.a) < MaxLen

UpdateRule == \E i \in IndexArgs, r \in RuleArgs : Apply(updateRule(query, i, r))

AddRule == \E r \in RuleArgs : Short(Get(query, "rules")) /\ Apply(addRule(query, r))

RemoveRule == \E i \in IndexArgs : Apply(removeRule(query, i))

UpdateSelection ==
  \E i \in IndexArgs, sel \in SelectionArgs : Apply(updateSelection(query, i, sel))

AddSelection ==
  \E sel \in SelectionArgs :
    Short(Get(query, "Selection")) /\ Apply(addSelection(query, sel))

RemoveSelection == \E i \in IndexArgs : Apply(removeSelection(query, i))

UpdateScoreMethod == \E ms \in ScoreMethodsArgs : Apply(updateScoreMethod(query, ms))

UpdateRules == \E rs \in RulesArgs : Apply(updateRules(query, rs))

UpdateSelections == \E ss \in SelectionsArgs : Apply(updateSelections(query, ss))

SetStepOptions ==
  /\ Mounted
  /\ stepOptions' \in StepOptionsArgs
  /\ importCall' = NoValue
  /\ UNCHANGED <<query, validationResult, pc, download, partialResult, outcomes,
                 initialQueryObject>>

\* set({ query: initialQuery }): the store's query is the initialQuery object
ResetQuery == Apply(Value(initialQueryObject))

SetQuery == \E d \in CallerDocuments : Apply(Value(d))

\* importQuery called with a value at hand (loadSampleQuery calls it so)
ImportQuery == \E raw \in RawInputs : Imported(raw, importQuery(raw))

\* the file with this text is chosen in the import field
ImportFile(text) ==
  LET h == handleImportTemplate(text)
  IN IF h.called THEN Imported(QueryDataOf(JSONparse(text).value).value, h.returned)
     ELSE /\ Mounted
          /\ importCall' = NoValue
          /\ UNCHANGED <<query, validationResult, pc, stepOptions, download,
                         partialResult, outcomes, initialQueryObject>>

HandleImportTemplate == \E text \in ImportFiles : ImportFile(text)

StoreInit ==
  /\ query = initialQuery
  /\ validationResult = InitialValidationResult
  /\ pc = "call"
  /\ Idle

StoreNext ==
  \/ ValidateQuery
  \/ UpdateRule
  \/ AddRule
  \/ RemoveRule
  \/ UpdateSelection
  \/ AddSelection
  \/ RemoveSelection
  \/ UpdateScoreMethod
  \/ UpdateRules
  \/ UpdateSelections
  \/ SetStepOptions
  \/ ResetQuery
  \/ SetQuery
  \/ ImportQuery
  \/ HandleImportTemplate

StoreSpec == StoreInit /\ [][StoreNext]_vars

\* the store edited and reset, nothing imported
EditNext ==
  \/ ValidateQuery
  \/ UpdateRule
  \/ AddRule
  \/ RemoveRule
  \/ UpdateSelection
  \/ AddSelection
  \/ RemoveSelection
  \/ UpdateScoreMethod
  \/ UpdateRules
  \/ UpdateSelections
  \/ SetStepOptions
  \/ ResetQuery

EditSpec == StoreInit /\ [][EditNext]_vars

(***************************************************************************)
(* The editors.  An editor receives a list of the store's query as a prop  *)
(* and passes the edited list to its onChange; the texts typed and the     *)
(* options chosen in its form are the inputs of its handlers.              *)
(***************************************************************************)
\* { ...obj } without the property key
Delete(obj, key) == Obj([k \in DOMAIN obj.f \ {key} |-> obj.f[k]])

\* list.map((x, i) => i === index ? { ...x, [field]: newValue } : x)
MapSpread(list, index, field, newValue) ==
  Arr([n \in 1..Len(list.a) |->
         IF n - 1 = index THEN Spread(list.a[n], field, newValue) ELSE list.a[n]])

\* the texts of the numbers typed into a number input, with their numbers
Numerals == ("0" :> 0) @@ ("25" :> 25)

\* Number(val) || 0: the number a numeral denotes, 0 for '' and for a text
\* that is no numeral
NumberOr0(val) == IF val \in DOMAIN Numerals THEN Num(Numerals[val]) ELSE Num(0)

getValueOptions(op) ==
  CASE op = "Percentile" -> {"Inverse", "None"}
    [] op = "many2one" -> {"Addition"}
    [] op = "Inverse" -> {"Inverse"}
    [] OTHER -> {}

getValueForOperation(op, val) ==
  CASE op = "Percentile" -> IF val \in {"Inverse", "None"} THEN Str(val) ELSE NumberOr0(val)
    [] op \in {"Multiplication", "Addition"} -> NumberOr0(val)
    [] op = "many2one" -> IF val # "" THEN Str(val) ELSE Str("Addition")
    [] op = "Inverse" -> IF val # "" THEN Str(val) ELSE Str("Inverse")
    [] op = "None" -> Str("None")
    [] OTHER -> Str(val)

\* the list OperationSelector.addScoreMethod passes to onChange; it returns
\* before that when the value is empty and the operation is not None
OperationSelector_addScoreMethod(scoreMethods, operation, value, dropEmptyRow, showDropEmptyRow) ==
  IF value = "" /\ operation # "None" THEN NoValue
  ELSE SpreadAppend(scoreMethods,
         MkObj([value |-> getValueForOperation(operation, value),
                operation |-> Str(operation),
                dropEmptyRow |-> IF showDropEmptyRow THEN Str(dropEmptyRow) ELSE Undef]))

OperationSelector_removeScoreMethod(scoreMethods, index) == FilterOut(scoreMethods, index)

OperationSelector_updateScoreMethod(scoreMethods, index, field, newValue) ==
  Value(MapSpread(scoreMethods, index, field, newValue))

\* what the value field of the form for a new operation can hold: the
\* operation select empties it, then an option is chosen or a numeral
\* typed; the input is disabled for None
FormValues(op) ==
  IF getValueOptions(op) # {} THEN {""} \cup getValueOptions(op)
  ELSE IF op = "None" THEN {""}
  ELSE {""} \cup DOMAIN Numerals

\* the score methods one OperationSelector holds
MaxMethods == 1

\* ScoreMethodBuilder's onChange in the App is the store's updateScoreMethod
ScoreMethodsChanged(out) ==
  IF out = NoValue THEN Mounted /\ UNCHANGED vars
  ELSE IF out.thrown THEN Apply(Raise)
  ELSE Apply(updateScoreMethod(query, out.value))

\* the positions of the entries of the list
Positions(list) == 0..(Len(list.a) - 1)

AddOperation ==
  \E op \in OperationLiterals, d \in DropEmptyRowLiterals :
    \E value \in FormValues(op) :
      /\ Len(Get(query, "scoreMethod").a) < MaxMethods
      /\ ScoreMethodsChanged(
           OperationSelector_addScoreMethod(Get(query, "scoreMethod"), op, value, d, TRUE))

RemoveOperation ==
  \E i \in Positions(Get(query, "scoreMethod")) :
    ScoreMethodsChanged(OperationSelector_removeScoreMethod(Get(query, "scoreMethod"), i))

\* the operation select of an entry
SelectOperation ==
  \E i \in Positions(Get(query, "scoreMethod")), op \in OperationLiterals :
    ScoreMethodsChanged(
      OperationSelector_updateScoreMethod(Get(query, "scoreMethod"), i, "operation", Str(op)))

\* the value select or input of an entry: an option as it is, a typed text
\* through getValueForOperation; the input is disabled for None
EditValue ==
  \E i \in Positions(Get(query, "scoreMethod")) :
    LET op == Get(query, "scoreMethod").a[i + 1].f.operation.s
        newValues == IF getValueOptions(op) # {} THEN {Str(o) : o \in getValueOptions(op)}
                     ELSE IF op = "None" THEN {}
                     ELSE {getValueForOperation(op, t) : t \in {""} \cup DOMAIN Numerals}
    IN \E v \in newValues :
         ScoreMethodsChanged(
           OperationSelector_updateScoreMethod(Get(query, "scoreMethod"), i, "value", v))

SelectDropEmptyRow ==
  \E i \in Positions(Get(query, "scoreMethod")), d \in DropEmptyRowLiterals :
    ScoreMethodsChanged(
      OperationSelector_updateScoreMethod(Get(query, "scoreMethod"), i, "dropEmptyRow", Str(d)))

OperationSelectorNext ==
  \/ ValidateQuery
  \/ AddOperation
  \/ RemoveOperation
  \/ SelectOperation
  \/ EditValue
  \/ SelectDropEmptyRow

OperationSelectorSpec == StoreInit /\ [][OperationSelectorNext]_vars

\* RuleBuilder.addRule: the list passed to onChange
RuleBuilder_addRule(rules) ==
  SpreadAppend(rules,
    MkObj([Data |-> Arr(<<MkObj([if |-> Arr(<<>>), get |-> Arr(<<>>)])>>)]))

\* rules.map((rule, i) => i === index ? updatedRule : rule)
RuleBuilder_updateRule(rules, index, updatedRule) ==
  Arr([n \in 1..Len(rules.a) |-> IF n - 1 = index THEN updatedRule ELSE rules.a[n]])

RuleBuilder_removeRule(rules, index) == FilterOut(rules, index)

RuleBuilder_addDataBlock(rules, ruleIndex) ==
  LET rule == rules.a[ruleIndex + 1]
  IN RuleBuilder_updateRule(rules, ruleIndex,
       Spread(rule, "Data",
              Arr(Append(Get(rule, "Data").a,
                         MkObj([if |-> Arr(<<>>), get |-> Arr(<<>>)])))))

RuleBuilder_removeDataBlock(rules, ruleIndex, dataBlockIndex) ==
  LET rule == rules.a[ruleIndex + 1]
  IN RuleBuilder_updateRule(rules, ruleIndex,
       Spread(rule, "Data", FilterOut(Get(rule, "Data"), dataBlockIndex).value))

RuleBuilder_updateDataBlock(rules, ruleIndex, dataBlockIndex, updatedDataBlock) ==
  LET rule == rules.a[ruleIndex + 1]
      Data == Get(rule, "Data")
  IN RuleBuilder_updateRule(rules, ruleIndex,
       Spread(rule, "Data",
              Arr([n \in 1..Len(Data.a) |->
                     IF n - 1 = dataBlockIndex THEN updatedDataBlock ELSE Data.a[n]])))

\* RuleBuilder's onChange in the App is the store's updateRules
RulesChanged(rules) == Apply(updateRules(query, rules))

\* the field_key of each field of an entry of defaultStepOptions
defaultFields(stepName) ==
  CASE stepName = "personal info step" ->
         {"familyIncome", "otherPersonalDetails", "disabilityPercent"}
    [] stepName = "education info step" -> {"present_class", "percentage"}
    [] stepName = "application info step" -> {"submittedDate"}
    [] stepName = "questions" ->
         {"If_you_are_a_student_of_2nd_year_or_above,_please_write_the_percentage_scored_in_the_previous_year._(If_1st_year_students_please_mention_your_class_12th_percentage)"}
    [] OTHER -> {}

\* getFieldsForStep(stepName): the fields of the step option of that name
getFieldsForStep(stepName) ==
  IF \E n \in DOMAIN stepOptions : stepOptions[n] = stepName
  THEN defaultFields(stepName) ELSE {}

\* str.trim(), for the space character
RECURSIVE Trim(_)
Trim(str) ==
  IF Len(str) > 0 /\ SubSeq(str, 1, 1) = " " THEN Trim(SubSeq(str, 2, Len(str)))
  ELSE IF Len(str) > 0 /\ SubSeq(str, Len(str), Len(str)) = " "
       THEN Trim(SubSeq(str, 1, Len(str) - 1))
  ELSE str

\* str.split(',')
RECURSIVE Split(_)
Split(str) ==
  LET commas == {n \in 1..Len(str) : SubSeq(str, n, n) = ","}
  IN IF commas = {} THEN <<str>>
     ELSE LET first == CHOOSE n \in commas : \A m \in commas : n <= m
          IN <<SubSeq(str, 1, first - 1)>> \o Split(SubSeq(str, first + 1, Len(str)))

\* e.target.value.split(',').map(v => v.trim())
SplitTrimmed(text) == Arr([n \in DOMAIN Split(text) |-> Str(Trim(Split(text)[n]))])

\* the list ConditionBuilder.addCondition passes to onChange; it returns
\* before that when no step or no field is selected
ConditionBuilder_addCondition(conditions, selectedStep, selectedField, operator, value) ==
  IF selectedStep = "" \/ selectedField = "" THEN NoValue
  ELSE SpreadAppend(conditions,
         MkObj([step_name |-> Str(selectedStep),
                field_key |-> Str(selectedField),
                operator |-> Str(operator),
                value |-> IF operator = "in" THEN Arr(<<Str(value)>>) ELSE Str(value)]))

ConditionBuilder_removeCondition(conditions, index) == FilterOut(conditions, index)

ConditionBuilder_updateCondition(conditions, index, field, newValue) ==
  Value(MapSpread(conditions, index, field, newValue))

\* the data block the ConditionBuilder is rendered for: the first block of
\* the first rule
TheBlock == Get(Get(query, "rules").a[1], "Data").a[1]

TheConditions == Get(TheBlock, "if")

\* the onChange RuleBuilder gives ConditionBuilder
ConditionsChanged(out) ==
  IF out = NoValue THEN Mounted /\ UNCHANGED vars
  ELSE IF out.thrown THEN Apply(Raise)
  ELSE RulesChanged(
         RuleBuilder_updateDataBlock(Get(query, "rules"), 0, 0,
                                     Spread(TheBlock, "if", out.value)))

\* the steps chosen in the step selects
ChosenSteps == {"application info step", "questions"}

\* the texts typed into the value inputs
TypedValues == {"a, b", "c"}

\* the conditions one ConditionBuilder holds
MaxConditions == 1

AddCondition ==
  \E step \in {""} \cup ChosenSteps, operator \in OperatorLiterals, value \in TypedValues :
    \E field \in {""} \cup getFieldsForStep(step) :
      /\ Len(TheConditions.a) < MaxConditions
      /\ ConditionsChanged(
           ConditionBuilder_addCondition(TheConditions, step, field, operator, value))

RemoveCondition ==
  \E i \in Positions(TheConditions) :
    ConditionsChanged(ConditionBuilder_removeCondition(TheConditions, i))

SelectStep ==
  \E i \in Positions(TheConditions), step \in ChosenSteps :
    ConditionsChanged(
      ConditionBuilder_updateCondition(TheConditions, i, "step_name", Str(step)))

SelectField ==
  \E i \in Positions(TheConditions) :
    \E field \in getFieldsForStep(Get(TheConditions.a[i + 1], "step_name").s) :
      ConditionsChanged(
        ConditionBuilder_updateCondition(TheConditions, i, "field_key", Str(field)))

\* the operator select of an entry
SelectOperator ==
  \E i \in Positions(TheConditions), operator \in OperatorLiterals :
    ConditionsChanged(
      ConditionBuilder_updateCondition(TheConditions, i, "operator", Str(operator)))

\* the value input of an entry: the text split at the commas for the
\* operator in, the text itself for the others
TypeValue ==
  \E i \in Positions(TheConditions), text \in TypedValues :
    ConditionsChanged(
      ConditionBuilder_updateCondition(TheConditions, i, "value",
        IF Get(TheConditions.a[i + 1], "operator") = Str("in")
        THEN SplitTrimmed(text) ELSE Str(text)))

\* the store after 'Add Rule' on the initial query: RuleBuilder renders a
\* ConditionBuilder for the data block of the new rule
ConditionBuilderInit ==
  /\ query = updateRules(initialQuery, RuleBuilder_addRule(Get(initialQuery, "rules")).value).value
  /\ validationResult = InitialValidationResult
  /\ pc = "call"
  /\ Idle

ConditionBuilderNext ==
  \/ ValidateQuery
  \/ AddCondition
  \/ RemoveCondition
  \/ SelectStep
  \/ SelectField
  \/ SelectOperator
  \/ TypeValue

ConditionBuilderSpec == ConditionBuilderInit /\ [][ConditionBuilderNext]_vars

\* the onChange of the 'Enable Score Methods' (key scoreMethod) and 'Enable
\* Assignment Methods' (key assignMethod) checkbox of a rule: the list
\* updateRule passes to onChange
RuleBuilder_enable(rules, ruleIndex, key, checked) ==
  LET rule == rules.a[ruleIndex + 1]
  IN RuleBuilder_updateRule(rules, ruleIndex,
       IF checked THEN Spread(rule, key, Arr(<<>>)) ELSE Delete(rule, key))

\* RankingBuilder.toggleRuleType: the rules of the updated ranking
toggleRuleType(rules, index, type) ==
  Arr([n \in 1..Len(rules.a) |->
         IF n - 1 = index
         THEN IF type = "scoreMethod"
              THEN Spread(Delete(rules.a[n], "assignMethod"), "scoreMethod",
                          Arr(<<MkObj([value |-> Str("Addition"),
                                       operation |-> Str("many2one")])>>))
              ELSE Spread(Delete(rules.a[n], "scoreMethod"), "assignMethod",
                          Arr(<<MkObj([value |-> Num(0), option |-> Str("default")]),
                                MkObj([value |-> Num(0), option |-> Str("isEmpty")])>>))
         ELSE rules.a[n]])

AddRuleClicked ==
  /\ Short(Get(query, "rules"))
  /\ RulesChanged(RuleBuilder_addRule(Get(query, "rules")).value)

RemoveRuleClicked ==
  \E i \in Positions(Get(query, "rules")) :
    RulesChanged(RuleBuilder_removeRule(Get(query, "rules"), i).value)

AddDataBlockClicked ==
  \E i \in Positions(Get(query, "rules")) :
    /\ Short(Get(Get(query, "rules").a[i + 1], "Data"))
    /\ RulesChanged(RuleBuilder_addDataBlock(Get(query, "rules"), i))

RemoveDataBlockClicked ==
  \E i \in Positions(Get(query, "rules")) :
    \E j \in Positions(Get(Get(query, "rules").a[i + 1], "Data")) :
      RulesChanged(RuleBuilder_removeDataBlock(Get(query, "rules"), i, j))

\* a click on the checkbox: it is checked when the rule has the field, and
\* the click hands over the opposite
ScoreMethodsClicked ==
  \E i \in Positions(Get(query, "rules")) :
    RulesChanged(
      RuleBuilder_enable(Get(query, "rules"), i, "scoreMethod",
                         Get(Get(query, "rules").a[i + 1], "scoreMethod") = Undef))

AssignMethodsClicked ==
  \E i \in Positions(Get(query, "rules")) :
    RulesChanged(
      RuleBuilder_enable(Get(query, "rules"), i, "assignMethod",
                         Get(Get(query, "rules").a[i + 1], "assignMethod") = Undef))

RuleBuilderNext ==
  \/ ValidateQuery
  \/ AddRuleClicked
  \/ RemoveRuleClicked
  \/ AddDataBlockClicked
  \/ RemoveDataBlockClicked
  \/ ScoreMethodsClicked
  \/ AssignMethodsClicked

RuleBuilderSpec == StoreInit /\ [][RuleBuilderNext]_vars

(***************************************************************************)
(* Export and import of the document.  download holds the text of the      *)
(* exported file and, beside it, the query it was made of.                 *)
(***************************************************************************)
Exported(value) ==
  /\ Mounted
  /\ download' = [text |-> JSONstringify(value), query |-> query]
  /\ importCall' = NoValue
  /\ UNCHANGED <<query, validationResult, pc, stepOptions, partialResult, outcomes,
                 initialQueryObject>>

\* handleExportTemplate: the template {name, created, query}
HandleExportTemplate == \E created \in CreatedInputs : Exported(Template(query, created))

\* downloadJson of the JSON preview: the query itself
DownloadJson == Exported(query)

\* the exported file is chosen in the import field
ImportDownload == download # NoValue /\ ImportFile(download.text)

RoundTripNext ==
  \/ ValidateQuery
  \/ HandleExportTemplate
  \/ DownloadJson
  \/ ImportDownload
  \/ ImportQuery
  \/ UpdateScoreMethod
  \/ ResetQuery

RoundTripSpec == StoreInit /\ [][RoundTripNext]_vars

(***************************************************************************)
(* Both validators applied to the same document, in either order.          *)
(***************************************************************************)
ValidatePartialQueryOnce ==
  /\ partialResult = NoValue
  /\ partialResult' = validatePartialQuery(query)
  /\ UNCHANGED <<query, validationResult, pc, stepOptions, importCall, download,
                 outcomes, initialQueryObject>>

BothNext ==
  \/ ValidateQuery
  \/ ValidatePartialQueryOnce

BothSpec == PartialInit /\ [][BothNext]_vars

(***************************************************************************)
(* Several callers of the validator: the App's effect, and callers that    *)
(* pass the store's query to validateQuery and to validatePartialQuery,    *)
(* with the store's query replaced in between.                             *)
(***************************************************************************)
\* the calls made on the document d so far
Calls(d) == IF outcomes[d] = NoValue THEN 0 ELSE outcomes[d].calls

\* a call of validateQuery that fills in a missing Selection of its argument
CallValidateQuery_AutoCorrecting ==
  /\ query \in CallerDocuments
  /\ Calls(query) < MaxCalls
  /\ outcomes' = [outcomes EXCEPT
                    ![query] = [out |-> validateQuery(query), calls |-> Calls(query) + 1]]
  /\ query' = Spread(query, "Selection", Or(Get(query, "Selection"), Arr(<<>>)))
  /\ UNCHANGED <<validationResult, pc, stepOptions, importCall, download, partialResult,
                 initialQueryObject>>

\* validateQuery(query) called outside the App
CallValidateQuery ==
  /\ query \in CallerDocuments
  /\ Calls(query) < MaxCalls
  /\ outcomes' = [outcomes EXCEPT
                    ![query] = [out |-> validateQuery(query), calls |-> Calls(query) + 1]]
  /\ UNCHANGED <<query, validationResult, pc, stepOptions, importCall, download,
                 partialResult, initialQueryObject>>

\* validatePartialQuery(query) called outside the App
CallValidatePartialQuery ==
  /\ partialResult' = validatePartialQuery(query)
  /\ UNCHANGED <<query, validationResult, pc, stepOptions, importCall, download,
                 outcomes, initialQueryObject>>

CallerInit ==
  /\ query \in CallerDocuments
  /\ validationResult = InitialValidationResult
  /\ pc = "call"
  /\ Idle

CallerNext ==
  \/ ValidateQuery
  \/ CallValidateQuery
  \/ CallValidatePartialQuery
  \/ SetQuery
  \/ ResetQuery

CallerSpec == CallerInit /\ [][CallerNext]_vars

(***************************************************************************)
(* The nodes of a document, by position.  A site is a node together with   *)
(* its kind and the path of its position, each index being the zero-based  *)
(* position of the node in its list.                                       *)
(***************************************************************************)
\* property k of v, absent (undefined) when v has no such property
Field(v, k) == IF v.t = "object" /\ k \in DOMAIN v.f THEN v.f[k] ELSE Undef

\* the elements of v when v is a list
Items(v) == IF v.t = "array" THEN v.a ELSE <<>>

Range(seq) == {seq[n] : n \in DOMAIN seq}

Count(seq, x) == Cardinality({n \in DOMAIN seq : seq[n] = x})

StartsWith(str, prefix) ==
  Len(str) >= Len(prefix) /\ SubSeq(str, 1, Len(prefix)) = prefix

ChildSites(kind, parentPath, parent, key, label) ==
  LET xs == Items(Field(parent, key))
  IN {[kind |-> kind, node |-> xs[n],
       path |-> parentPath \o label \o "[" \o ToString(n - 1) \o "]"] : n \in DOMAIN xs}

RuleSites(q) == ChildSites("rule", "", q, "rules", "Rule")

SelectionSites(q) == ChildSites("selection", "", q, "Selection", "Selection")

TopScoreSites(q) == ChildSites("score", "", q, "scoreMethod", "scoreMethod")

SortSites(q) ==
  UNION {ChildSites("sort", s.path, s.node, "sortMethod", ".sortMethod") :
           s \in SelectionSites(q)}

BlockSites(q) ==
  UNION {ChildSites("block", p.path, p.node, "Data", ".Data") :
           p \in RuleSites(q) \cup SortSites(q)}

ConditionSites(q) ==
  UNION {ChildSites("condition", b.path, b.node, "if", ".if") : b \in BlockSites(q)}

FieldSites(q) ==
  UNION {ChildSites("field", b.path, b.node, "get", ".get") : b \in BlockSites(q)}

RuleScoreSites(q) ==
  UNION {ChildSites("score", r.path, r.node, "scoreMethod", ".scoreMethod") :
           r \in RuleSites(q)}

ScoreSites(q) == RuleScoreSites(q) \cup TopScoreSites(q)

AssignSites(q) ==
  UNION {ChildSites("assign", r.path, r.node, "assignMethod", ".assignMethod") :
           r \in RuleSites(q)}

Sites(q) ==
  RuleSites(q) \cup SelectionSites(q) \cup SortSites(q) \cup BlockSites(q)
  \cup ConditionSites(q) \cup FieldSites(q) \cup ScoreSites(q) \cup AssignSites(q)

\* The container fields that must be sequences: path names the container in
\* its error, below starts the path of every node beneath it.
TopContainers(q) ==
  {[path |-> "Rules", below |-> "Rule[", value |-> Field(q, "rules")],
   [path |-> "Selection", below |-> "Selection[", value |-> Field(q, "Selection")],
   [path |-> "scoreMethod", below |-> "scoreMethod[", value |-> Field(q, "scoreMethod")]}

ContainersOf(site) ==
  LET keys == CASE site.kind \in {"rule", "sort"} -> {"Data"}
                [] site.kind = "block" -> {"if", "get"}
                [] site.kind = "selection" -> {"sortMethod"}
                [] OTHER -> {}
  IN {[path |-> site.path \o "." \o k, below |-> site.path \o "." \o k \o "[",
       value |-> Field(site.node, k)] : k \in keys}

Containers(q) == TopContainers(q) \cup UNION {ContainersOf(s) : s \in Sites(q)}

ContainerErrors(cs) == {c.path \o " must be an array" : c \in {d \in cs : d.value.t # "array"}}

Falsy(v) == v \in {Undef, Null, Bool(FALSE), Num(0), Str("")}

\* a rule's optional list: an error when it holds a truthy value that is no list
OptionalContainerErrors(site) ==
  {site.path \o "." \o k \o " must be an array" :
     k \in {j \in {"scoreMethod", "assignMethod"} :
              ~Falsy(Field(site.node, j)) /\ Field(site.node, j).t # "array"}}

LegalSortOrder(v) == v \in {Str("Ascending"), Str("Descending")}

QuantityErrors(site) ==
  LET quantity == Field(site.node, "quantity")
  IN IF quantity.t \notin {"object", "array"}
       THEN {site.path \o ".quantity is required and must be an object"}
     ELSE IF ~LegalSortOrder(Field(quantity, "sortOrder"))
       THEN {site.path \o ".quantity.sortOrder must be either 'Ascending' or 'Descending'"}
     ELSE {}

SortOrderErrors(site) ==
  IF LegalSortOrder(Field(site.node, "sortOrder")) THEN {}
  ELSE {site.path \o ".sortOrder must be either 'Ascending' or 'Descending'"}

\* the errors of one node taken alone, at its path
LocalErrors(site) ==
  CASE site.kind = "condition" -> Range(validateCondition(site.node, site.path).errors)
    [] site.kind = "field" -> Range(validateField(site.node, site.path).errors)
    [] site.kind = "score" -> Range(validateScoreMethod(site.node, site.path).errors)
    [] site.kind = "assign" -> Range(validateAssignMethod(site.node, site.path).errors)
    [] site.kind = "rule" ->
         ContainerErrors(ContainersOf(site)) \cup OptionalContainerErrors(site)
    [] site.kind = "block" -> ContainerErrors(ContainersOf(site))
    [] site.kind = "sort" -> ContainerErrors(ContainersOf(site)) \cup SortOrderErrors(site)
    [] site.kind = "selection" ->
         QuantityErrors(site) \cup ContainerErrors(ContainersOf(site))

\* the violations of all nodes of the document, each at its path
AllViolations(q) ==
  ContainerErrors(TopContainers(q)) \cup UNION {LocalErrors(s) : s \in Sites(q)}

NotNullish(v) == v.t \notin {"undefined", "null"}

\* neither the document nor any node of it is null or undefined
NoNullishNode(q) == NotNullish(q) /\ \A s \in Sites(q) : NotNullish(s.node)

Returned == pc = "returned"

Errors == validationResult.errors

(***************************************************************************)
(* Well-formed documents: all containers are sequences and every entity    *)
(* satisfies its per-entity rule.                                          *)
(***************************************************************************)
NonEmptyString(v) == v.t = "string" /\ v.s # ""

IsList(v) == v.t = "array"

ListOf(v, P(_)) == IsList(v) /\ \A n \in DOMAIN v.a : P(v.a[n])

Present(v) == v # Undef /\ v # Null

\* the legal operators of the document shape (types/index.ts, OperatorType)
OperatorType == {Str("in"), Str("equals"), Str("not equals")}

\* the legal operations of the document shape (types/index.ts, OperationType)
OperationType ==
  {Str("Percentile"), Str("Multiplication"), Str("Addition"), Str("many2one"),
   Str("Inverse"), Str("None")}

WellFormedCondition(c) ==
  /\ c.t = "object"
  /\ NonEmptyString(Field(c, "field_key"))
  /\ NonEmptyString(Field(c, "step_name"))
  /\ Field(c, "operator") \in OperatorType
  /\ Present(Field(c, "value"))

WellFormedField(f) ==
  /\ f.t = "object"
  /\ NonEmptyString(Field(f, "field_key"))
  /\ NonEmptyString(Field(f, "step_name"))
  /\ Field(f, "course") = Undef \/ Field(f, "course").t = "string"

WellFormedScoreMethod(m) ==
  /\ m.t = "object"
  /\ Present(Field(m, "value"))
  /\ Field(m, "operation") \in OperationType
  /\ Field(m, "dropEmptyRow") \in {Undef, Str("all"), Str("none")}

IsString(v) == v.t = "string"

\* option is a string, or a sequence whose every element is a string
WellFormedAssignMethodAsSpecified(m) ==
  /\ m.t = "object"
  /\ Field(m, "value").t = "number"
  /\ IsString(Field(m, "option")) \/ ListOf(Field(m, "option"), IsString)

\* option is a non-empty string, or a sequence whose every element is a string
WellFormedAssignMethod(m) ==
  /\ WellFormedAssignMethodAsSpecified(m)
  /\ Field(m, "option") # Str("")

WellFormedDataBlock(b) ==
  /\ b.t = "object"
  /\ ListOf(Field(b, "if"), WellFormedCondition)
  /\ ListOf(Field(b, "get"), WellFormedField)

WellFormedRule(r, AssignRule(_)) ==
  /\ r.t = "object"
  /\ ListOf(Field(r, "Data"), WellFormedDataBlock)
  /\ Field(r, "scoreMethod") = Undef \/ ListOf(Field(r, "scoreMethod"), WellFormedScoreMethod)
  /\ Field(r, "assignMethod") = Undef \/ ListOf(Field(r, "assignMethod"), AssignRule)

WellFormedSortMethod(m) ==
  /\ m.t = "object"
  /\ ListOf(Field(m, "Data"), WellFormedDataBlock)
  /\ LegalSortOrder(Field(m, "sortOrder"))

WellFormedSelection(sel) ==
  /\ sel.t = "object"
  /\ Field(sel, "quantity").t = "object"
  /\ LegalSortOrder(Field(Field(sel, "quantity"), "sortOrder"))
  /\ ListOf(Field(sel, "sortMethod"), WellFormedSortMethod)

WellFormedDocument(q, AssignRule(_)) ==
  /\ q.t = "object"
  /\ IsList(Field(q, "rules"))
  /\ \A n \in DOMAIN Field(q, "rules").a : WellFormedRule(Field(q, "rules").a[n], AssignRule)
  /\ ListOf(Field(q, "Selection"), WellFormedSelection)
  /\ ListOf(Field(q, "scoreMethod"), WellFormedScoreMethod)

Accepted == Returned /\ validationResult = [isValid |-> TRUE, errors |-> <<>>]

(***************************************************************************)
(* Claims                                                                  *)
(***************************************************************************)
\* C1: validateQuery never raises: on every document, malformed ones
\* included, the call returns a {isValid, errors} result.
C1_NeverRaises == pc # "call" => Returned

\* C2: validateQuery does not short-circuit: it returns on every document
\* without a null or undefined node, and when it returns, the errors list
\* holds the violations of every node of the document, one entry each, so
\* that no violation hides one of a sibling or of a later subtree.
C2_AllViolationsReported ==
  /\ (pc # "call" /\ NoNullishNode(query)) => Returned
  /\ Returned =>
       /\ AllViolations(query) \subseteq Range(Errors)
       /\ Len(Errors) = Cardinality(AllViolations(query))

HasErrors(sites) == \E s \in sites : LocalErrors(s) # {}

\* violations in two sibling conditions, a field, a score method, an assign
\* method, a later rule, a selection and a top-level score method at once
C2_Witness ==
  /\ Returned
  /\ \E c1, c2 \in ConditionSites(query) :
       c1 # c2 /\ LocalErrors(c1) # {} /\ LocalErrors(c2) # {}
  /\ \E r1, r2 \in RuleSites(query) :
       r1 # r2 /\ HasErrors(ChildSites("block", r1.path, r1.node, "Data", ".Data"))
       /\ HasErrors(ChildSites("block", r2.path, r2.node, "Data", ".Data"))
  /\ HasErrors(FieldSites(query)) /\ HasErrors(RuleScoreSites(query))
  /\ HasErrors(AssignSites(query)) /\ HasErrors(SelectionSites(query))
  /\ HasErrors(SortSites(query)) /\ HasErrors(TopScoreSites(query))

\* C3 as stated: every document whose containers are sequences and whose
\* entities satisfy their per-entity rules (an AssignMethod option being a
\* string or a sequence of strings) is accepted with no error.
C3_NoSpuriousErrors_AsStated ==
  (pc # "call" /\ WellFormedDocument(query, WellFormedAssignMethodAsSpecified)) => Accepted

\* C3 amended: every document whose containers are sequences and whose
\* entities satisfy their per-entity rules, an AssignMethod option being a
\* non-empty string or a sequence of strings, is accepted with no error.
C3_NoSpuriousErrors ==
  (pc # "call" /\ WellFormedDocument(query, WellFormedAssignMethod)) => Accepted

\* a well-formed document with an "in" condition over an array of strings, a
\* selection and an assign method has been validated
C3_Witness ==
  /\ Accepted
  /\ WellFormedDocument(query, WellFormedAssignMethod)
  /\ \/ query = Scenario1
     \/ \E c \in ConditionSites(query) :
          /\ Field(c.node, "operator") = Str("in")
          /\ Field(c.node, "value") = Arr(<<Str("Class 12")>>)

IsTopContainerError(e) ==
  e \in {"Rules must be an array", "Selection must be an array", "scoreMethod must be an array"}

IsRuleError(e) == StartsWith(e, "Rule[")

IsSelectionError(e) == StartsWith(e, "Selection[")

\* C5 as stated: the top-level container errors come before every per-Rule
\* error, and the per-Rule errors before every per-Selection error.
C5_ContainerErrorsFirst_AsStated ==
  Returned =>
    \A m, n \in DOMAIN Errors :
      m < n =>
        /\ ~(IsTopContainerError(Errors[n]) /\ IsRuleError(Errors[m]))
        /\ ~(IsTopContainerError(Errors[n]) /\ IsSelectionError(Errors[m]))
        /\ ~(IsRuleError(Errors[n]) /\ IsSelectionError(Errors[m]))

\* the part of the document an error belongs to: rules, Selection, scoreMethod
Part(e) ==
  IF e = "Rules must be an array" \/ IsRuleError(e) THEN 1
  ELSE IF e = "Selection must be an array" \/ IsSelectionError(e) THEN 2
  ELSE 3

\* the index i of the entry an error "label[i]..." belongs to, -1 when none
EntryIndex(e, label, list) ==
  LET is == {i \in 0..(Len(Items(list)) - 1) :
               StartsWith(e, label \o "[" \o ToString(i) \o "]")}
  IN IF is = {} THEN -1 ELSE CHOOSE i \in is : TRUE

\* C5 amended: the errors of the rules part ('Rules must be an array' or the
\* per-Rule errors, rules in index order) come first, then those of the
\* Selection part ('Selection must be an array' or the per-Selection errors,
\* entries in index order), then those of the scoreMethod part.
C5_PartsInOrder ==
  Returned =>
    \A m, n \in DOMAIN Errors :
      m < n =>
        /\ Part(Errors[m]) <= Part(Errors[n])
        /\ EntryIndex(Errors[m], "Rule", Field(query, "rules"))
             <= EntryIndex(Errors[n], "Rule", Field(query, "rules"))
           \/ ~IsRuleError(Errors[n])
        /\ EntryIndex(Errors[m], "Selection", Field(query, "Selection"))
             <= EntryIndex(Errors[n], "Selection", Field(query, "Selection"))
           \/ ~IsSelectionError(Errors[n])

\* errors of two rules, then of two selections, then the top-level
\* scoreMethod container error
C5_Witness ==
  LET Where(prefix) == {n \in DOMAIN Errors : StartsWith(Errors[n], prefix)}
      Before(A, B) == A # {} /\ B # {} /\ \A a \in A, b \in B : a < b
  IN /\ Returned
     /\ Before(Where("Rule[1]"), Where("Rule[2]"))
     /\ Before(Where("Rule[2]"), Where("Selection[0]"))
     /\ Before(Where("Selection[0]"), Where("Selection[2]"))
     /\ Before(Where("Selection[2]"), Where("scoreMethod must be an array"))

\* C6: every error of a node below the top level starts with the path of
\* that node, a node that has this error at its zero-based position in each
\* list; so no two entries of the errors list are equal.
C6_ErrorsCarryNodePath ==
  Returned =>
    /\ \A n \in DOMAIN Errors :
         \/ Errors[n] \in ContainerErrors(TopContainers(query))
         \/ \E s \in Sites(query) :
              Errors[n] \in LocalErrors(s) /\ StartsWith(Errors[n], s.path \o ".")
    /\ \A m, n \in DOMAIN Errors : m # n => Errors[m] # Errors[n]

\* the same bad condition at two positions of a rule, and a bad field under a
\* sort method, each reported under its own path
C6_Witness ==
  /\ Returned
  /\ {"Rule[0].Data[0].if[0].field_key is required and must be a string",
      "Rule[0].Data[0].if[2].field_key is required and must be a string",
      "Rule[0].Data[1].get[0].field_key is required and must be a string",
      "Rule[0].scoreMethod[2].value is required",
      "Rule[0].assignMethod[0].option[1] must be a string",
      "Selection[1].quantity.sortOrder must be either 'Ascending' or 'Descending'",
      "Selection[1].sortMethod[0].Data[0].get[0].course must be a string if provided",
      "scoreMethod[0].value is required"} \subseteq Range(Errors)

\* the entries of errs that start with prefix
Mentions(errs, prefix) == Cardinality({n \in DOMAIN errs : StartsWith(errs[n], prefix)})

RequiredStringErrors(errs, path, node, key) ==
  LET expected == IF NonEmptyString(Field(node, key)) THEN 0 ELSE 1
  IN /\ Mentions(errs, path \o "." \o key) = expected
     /\ Count(errs, path \o "." \o key \o " is required and must be a string") = expected

\* C7: every Condition has exactly one error for field_key when field_key is
\* absent, empty or no string, and none otherwise, and likewise for
\* step_name: in what validateCondition returns for it and in the errors
\* validateQuery returns.
C7_ConditionRequiredFields ==
  \A c \in ConditionSites(query) :
    NotNullish(c.node) =>
      LET own == validateCondition(c.node, c.path)
      IN /\ ~own.thrown
         /\ RequiredStringErrors(own.errors, c.path, c.node, "field_key")
         /\ RequiredStringErrors(own.errors, c.path, c.node, "step_name")
         /\ Returned =>
              /\ RequiredStringErrors(Errors, c.path, c.node, "field_key")
              /\ RequiredStringErrors(Errors, c.path, c.node, "step_name")

\* a condition with an empty field_key and a null step_name has its two errors
C7_Witness ==
  /\ Returned
  /\ \E c \in ConditionSites(query) :
       /\ Field(c.node, "field_key") = Str("") /\ Field(c.node, "step_name") = Null
       /\ Field(c.node, "operator") = Str("equals")
       /\ Mentions(Errors, c.path) = 2

OperatorErrors(errs, path, node) ==
  LET expected == IF Field(node, "operator") \in OperatorType THEN 0 ELSE 1
  IN /\ Mentions(errs, path \o ".operator") = expected
     /\ Count(errs, path \o ".operator must be one of: in, equals, not equals") = expected

C9_CourseMustBeString ==
  Returned =>
    \A f \in FieldSites(query) :
      LET course == Field(f.node, "course")
          expected == IF course # Undef /\ course.t # "string" THEN 1 ELSE 0
      IN /\ course # Null =>
              Count(Errors, f.path \o ".course must be a string if provided") = expected
         /\ RequiredStringErrors(Errors, f.path, f.node, "field_key")
         /\ RequiredStringErrors(Errors, f.path, f.node, "step_name")

OperationErrorText(path) ==
  path \o ".operation must be one of: Percentile, Multiplication, Addition, many2one, Inverse, None"

\* errs holds one entry for the node at path, its operation error
OnlyOperationError(errs, path) ==
  /\ Mentions(errs, path \o ".") = 1
  /\ Count(errs, OperationErrorText(path)) = 1

\* C10: a ScoreMethod, of a rule or of the top level, whose operation is none
\* of the six legal ones, whose value is non-null and whose dropEmptyRow is
\* absent or legal has exactly one error, the operation error; a ScoreMethod
\* with a legal operation has no operation error.
C10_OperationEnum ==
  \A m \in ScoreSites(query) :
    NotNullish(m.node) =>
      LET own == validateScoreMethod(m.node, m.path).errors
          illegal == Field(m.node, "operation") \notin OperationType
          rest == /\ Present(Field(m.node, "value"))
                  /\ Field(m.node, "dropEmptyRow") \in {Undef, Str("all"), Str("none")}
      IN /\ (illegal /\ rest) =>
              /\ OnlyOperationError(own, m.path)
              /\ Returned => OnlyOperationError(Errors, m.path)
         /\ ~illegal =>
              /\ Mentions(own, m.path \o ".operation") = 0
              /\ Returned => Mentions(Errors, m.path \o ".operation") = 0

\* a score method with operation "percentile", value 0 and dropEmptyRow "none"
\* in the scoreMethod list of a rule has its one error
C10_Witness ==
  /\ Returned
  /\ \E m \in RuleScoreSites(query) :
       /\ Field(m.node, "operation") = Str("percentile")
       /\ Field(m.node, "value") = Num(0)
       /\ Field(m.node, "dropEmptyRow") = Str("none")
       /\ OnlyOperationError(Errors, m.path)

\* C11: every accepted document has a numeric value in every ScoreMethod, of
\* a rule or of the top level, whose operation is Multiplication or Addition.
C11_ArithmeticValueIsNumeric ==
  Accepted =>
    \A m \in ScoreSites(query) :
      Field(m.node, "operation") \in {Str("Multiplication"), Str("Addition")} =>
        Field(m.node, "value").t = "number"

\* errs holds one entry for the node at path, and that entry is text
OnlyError(errs, path, text) ==
  /\ Mentions(errs, path \o ".") = 1
  /\ Count(errs, text) = 1

\* C12: an AssignMethod whose value is no number and whose option is a
\* non-empty string has exactly one error, '<path>.value must be a number';
\* an AssignMethod whose value is a number has no value error.
C12_AssignValueMustBeNumber ==
  \A m \in AssignSites(query) :
    NotNullish(m.node) =>
      LET own == validateAssignMethod(m.node, m.path).errors
          numeric == Field(m.node, "value").t = "number"
          text == m.path \o ".value must be a number"
      IN /\ (~numeric /\ NonEmptyString(Field(m.node, "option"))) =>
              /\ OnlyError(own, m.path, text)
              /\ Returned => OnlyError(Errors, m.path, text)
         /\ numeric =>
              /\ Mentions(own, m.path \o ".value") = 0
              /\ Returned => Mentions(Errors, m.path \o ".value") = 0

\* scenario 2: the value "15" with the option "Orphan" gives the one error
C12_Witness ==
  /\ Returned
  /\ query = Scenario2
  /\ validationResult =
       [isValid |-> FALSE, errors |-> <<"Rule[0].assignMethod[0].value must be a number">>]

\* the errors about the option of the AssignMethod at path are as many as
\* expected: one '<path>.option[m] must be a string' for each element of a
\* sequence that is no string, at its zero-based index m, none for a legal
\* option, and one for an option that is neither legal nor a sequence
OptionErrorsAsExpected(errs, path, option, legal) ==
  LET bad == IF IsList(option)
               THEN {n \in DOMAIN option.a : ~IsString(option.a[n])}
             ELSE {}
  IN /\ Mentions(errs, path \o ".option") = 0 <=> legal
     /\ IsList(option) =>
          /\ Mentions(errs, path \o ".option") = Cardinality(bad)
          /\ \A n \in DOMAIN option.a :
               Count(errs, path \o ".option[" \o ToString(n - 1) \o "] must be a string")
                 = IF n \in bad THEN 1 ELSE 0
     /\ (~IsString(option) /\ ~IsList(option)) => Mentions(errs, path \o ".option") = 1

\* C13 as stated: an AssignMethod's option has no error exactly when it is a
\* string or a sequence of strings; a sequence has one error per element that
\* is no string, at its index; an option that is neither a string nor a
\* sequence has exactly one error.
C13_OptionRule_AsStated ==
  \A m \in AssignSites(query) :
    (pc # "call" /\ NotNullish(m.node)) =>
      LET option == Field(m.node, "option")
          legal == IsString(option) \/ ListOf(option, IsString)
      IN /\ OptionErrorsAsExpected(validateAssignMethod(m.node, m.path).errors,
                                   m.path, option, legal)
         /\ Returned => OptionErrorsAsExpected(Errors, m.path, option, legal)

\* C13 amended: an AssignMethod's option has no error exactly when it is a
\* non-empty string or a sequence of strings (the empty string has the one
\* error 'option is required'); a sequence has one error per element that is
\* no string, at its index; an option that is neither a string nor a sequence
\* has exactly one error.
C13_OptionRule ==
  \A m \in AssignSites(query) :
    (pc # "call" /\ NotNullish(m.node)) =>
      LET option == Field(m.node, "option")
          legal == NonEmptyString(option) \/ ListOf(option, IsString)
          own == validateAssignMethod(m.node, m.path).errors
      IN /\ OptionErrorsAsExpected(own, m.path, option, legal)
         /\ option = Str("") => Count(own, m.path \o ".option is required") = 1
         /\ Returned =>
              /\ OptionErrorsAsExpected(Errors, m.path, option, legal)
              /\ option = Str("") => Count(Errors, m.path \o ".option is required") = 1

\* an option list with two elements that are no strings around a string, in
\* the second assign method of a rule
C13_Witness ==
  /\ Returned
  /\ \E m \in AssignSites(query) :
       /\ Field(m.node, "option") = Arr(<<Null, Str("b"), Num(2)>>)
       /\ m.path = "Rule[0].assignMethod[1]"
       /\ {m.path \o ".option[0] must be a string",
           m.path \o ".option[2] must be a string"} \subseteq Range(Errors)
       /\ Mentions(Errors, m.path \o ".option") = 2

SortOrderText == ".sortOrder must be either 'Ascending' or 'Descending'"

\* C14: a Selection has exactly one error about quantity when quantity is
\* missing, is no object or carries no legal sortOrder (for an object, the
\* error '<path>.quantity.sortOrder must be either 'Ascending' or
\* 'Descending''), and none when quantity is an object with a legal
\* sortOrder; a SortMethod has exactly one sortOrder error when its sortOrder
\* is absent or illegal, and none otherwise.
C14_QuantityAndSortOrder ==
  Returned =>
    /\ \A s \in SelectionSites(query) :
         LET quantity == Field(s.node, "quantity")
             legal == quantity.t = "object" /\ LegalSortOrder(Field(quantity, "sortOrder"))
         IN /\ Mentions(Errors, s.path \o ".quantity") = IF legal THEN 0 ELSE 1
            /\ (quantity.t = "object" /\ ~legal) =>
                 Count(Errors, s.path \o ".quantity" \o SortOrderText) = 1
            /\ quantity.t \notin {"object", "array"} =>
                 Count(Errors, s.path \o ".quantity is required and must be an object") = 1
    /\ \A m \in SortSites(query) :
         Mentions(Errors, m.path \o ".sortOrder")
           = IF LegalSortOrder(Field(m.node, "sortOrder")) THEN 0 ELSE 1

\* scenario 3, and a selection with a legal quantity whose second sort method
\* has the sort order "Up"
C14_Witness ==
  /\ Returned
  /\ \/ /\ query = Scenario3
        /\ Errors = <<"Selection[0].quantity" \o SortOrderText>>
     \/ \E m \in SortSites(query) :
          /\ m.path = "Selection[0].sortMethod[1]"
          /\ Field(m.node, "sortOrder") = Str("Up")
          /\ m.path \o SortOrderText \in Range(Errors)

C17_RoundTrip == [][ImportDownload => query' = download.query]_vars

\* the template of the sample query was exported, the query was replaced by
\* one with errors, and the import of the file has put the sample query back
C17_Witness ==
  /\ download # NoValue
  /\ "name" \in DOMAIN download.text.json.f
  /\ importCall # NoValue
  /\ importCall.queryData = download.query
  /\ importCall.success = Bool(TRUE)
  /\ query = download.query
  /\ query = SampleQuery
  /\ pc = "call"
  /\ validationResult.errors # <<>>

\* raw can be made a Document: an object whose rules, Selection and
\* scoreMethod are each a sequence or absent
Coercible(raw) ==
  /\ raw.t = "object"
  /\ \A k \in {"rules", "Selection", "scoreMethod"} :
       Field(raw, k) = Undef \/ IsList(Field(raw, k))

\* C18: importQuery(raw) returns true exactly when raw can be made a
\* Document, and false otherwise; when it returns false the stored query and
\* stepOptions are as before.
C18_TrueExactlyWhenCoercible ==
  /\ [](importCall # NoValue =>
          (importCall.success = Bool(TRUE) <=> Coercible(importCall.queryData)))
  /\ [][((ImportQuery \/ HandleImportTemplate)
            /\ importCall' # NoValue /\ importCall'.success = Bool(FALSE))
          => (query' = query /\ stepOptions' = stepOptions)]_vars

\* the get entries of the rules' data blocks
RuleFieldSites(q) ==
  UNION {ChildSites("field", b.path, b.node, "get", ".get") :
           b \in UNION {ChildSites("block", r.path, r.node, "Data", ".Data") :
                          r \in RuleSites(q)}}

\* the node has no field_key, or no step_name: absent, null or empty
Incomplete(node) ==
  \/ Field(node, "field_key") \in {Undef, Null, Str(""), Num(0)}
  \/ Field(node, "step_name") \in {Undef, Null, Str(""), Num(0)}

\* C19: when validatePartialQuery returns, its errors are the entries
\* 'Rule[i].Data[j].get[k] is missing required fields' of the FieldRefs of
\* the rules' get lists that have no field_key or no step_name, one entry
\* each, and nothing else: nothing for absent or empty conditions, score
\* methods and assign methods, nor for Selection and the top-level
\* scoreMethod; and it returns whenever no rule, data block or get entry is
\* null or undefined.
C19_PartialReportsIncompleteFields ==
  pc # "call" =>
    LET expected == {f.path \o " is missing required fields" :
                       f \in {g \in RuleFieldSites(query) : Incomplete(g.node)}}
        nodes == RuleSites(query) \cup RuleFieldSites(query)
                 \cup UNION {ChildSites("block", r.path, r.node, "Data", ".Data") :
                               r \in RuleSites(query)}
    IN /\ (NotNullish(query) /\ \A s \in nodes : NotNullish(s.node)) => ~partialResult.thrown
       /\ ~partialResult.thrown =>
            /\ Range(partialResult.result.errors) = expected
            /\ Len(partialResult.result.errors) = Cardinality(expected)

\* a document under construction, without Selection and scoreMethod, whose
\* second rule has a data block without conditions and a get entry with a
\* field_key alone: this entry is the one error
C19_Witness ==
  /\ pc = "returned"
  /\ Field(query, "Selection") = Undef /\ Field(query, "scoreMethod") = Undef
  /\ \E f \in RuleFieldSites(query) :
       /\ f.path = "Rule[1].Data[0].get[0]"
       /\ Field(f.node, "field_key") = Str("present_class")
       /\ Field(f.node, "step_name") = Undef
  /\ partialResult.result =
       [isValid |-> FALSE, errors |-> <<"Rule[1].Data[0].get[0] is missing required fields">>]
  /\ ~validateQuery(query).result.isValid

C23_EmptyQueryIsRejected ==
  (pc = "returned" /\ query = initialQuery)
    => /\ validationResult.isValid = FALSE
       /\ \E i \in DOMAIN validationResult.errors :
            validationResult.errors[i] = "Query must have at least one rule"

\* the errors that mention the optional list k of the rule at path, or an
\* entry of it
ErrorsOfList(errs, path, k) ==
  {n \in DOMAIN errs : StartsWith(errs[n], path \o "." \o k \o " ")
                       \/ StartsWith(errs[n], path \o "." \o k \o "[")}

\* C26: for a rule's scoreMethod and assignMethod, whenever validateQuery
\* returns: an absent field has no error; a field present with a value that
\* is no sequence (null left open) has exactly one error, '<path>.<field>
\* must be an array'; the entries of a sequence are each validated; and this
\* holds for each of the two fields whatever the other one holds.
C26_OptionalRuleLists ==
  Returned =>
    \A r \in RuleSites(query) : \A k \in {"scoreMethod", "assignMethod"} :
      LET v == Field(r.node, k)
          kind == IF k = "scoreMethod" THEN "score" ELSE "assign"
      IN /\ v = Undef => ErrorsOfList(Errors, r.path, k) = {}
         /\ (NotNullish(v) /\ v.t # "array") =>
              /\ Count(Errors, r.path \o "." \o k \o " must be an array") = 1
              /\ Cardinality(ErrorsOfList(Errors, r.path, k)) = 1
         /\ v.t = "array" =>
              \A s \in ChildSites(kind, r.path, r.node, k, "." \o k) :
                LocalErrors(s) \subseteq Range(Errors)

\* C29: whenever validateQuery or validatePartialQuery returns, isValid is
\* true exactly when the returned errors sequence is empty.
C29_ValidIffNoErrors ==
  /\ pc = "returned" => (validationResult.isValid <=> validationResult.errors = <<>>)
  /\ (partialResult # NoValue /\ ~partialResult.thrown) =>
       (partialResult.result.isValid <=> partialResult.result.errors = <<>>)

\* both have returned on the same document: validateQuery with errors and
\* isValid false, validatePartialQuery with no error and isValid true
C29_Witness ==
  /\ pc = "returned"
  /\ validationResult.errors # <<>>
  /\ ~validationResult.isValid
  /\ partialResult # NoValue
  /\ ~partialResult.thrown
  /\ partialResult.result = [isValid |-> TRUE, errors |-> <<>>]

\* C30: in every state the store reaches, by imports of any parsed JSON
\* included, the query's rules, Selection and scoreMethod are each a
\* sequence.
C30_StoredListsAreSequences ==
  \A k \in {"rules", "Selection", "scoreMethod"} : IsArray(Get(query, k))

\* the document with no rule, no selection and no score method
EmptyDocument ==
  MkObj([rules |-> Arr(<<>>), Selection |-> Arr(<<>>), scoreMethod |-> Arr(<<>>)])

\* C24: whatever edits, imports and resets came before, resetQuery leaves the
\* store holding the empty document and stepOptions as it was; the
\* initialQuery object that a reset stores never holds anything of an edit.
C24_ResetRestoresEmptyDocument ==
  /\ [][ResetQuery => (query' = EmptyDocument /\ stepOptions' = stepOptions)]_vars
  /\ [](initialQueryObject = EmptyDocument)

\* the store holds the empty document, about to be validated, after a query
\* with errors in its rules and in its selections; stepOptions had been set
C24_Witness ==
  /\ query = EmptyDocument
  /\ pc = "call"
  /\ importCall = NoValue
  /\ stepOptions # defaultStepOptions
  /\ \E n \in DOMAIN validationResult.errors :
       StartsWith(validationResult.errors[n], "Rule[")
  /\ \E n \in DOMAIN validationResult.errors :
       StartsWith(validationResult.errors[n], "Selection[")

\* the positions of the errors whose text starts with prefix
Where(prefix) == {n \in DOMAIN Errors : StartsWith(Errors[n], prefix)}

\* the errors under an earlier prefix of the sequence all come before the
\* errors under a later one
InOrder(prefixes) ==
  \A a, b \in DOMAIN prefixes :
    a < b => \A m \in Where(prefixes[a]), n \in Where(prefixes[b]) : m < n

\* the paths of the entries of a list, in index order
EntryPrefixes(path, label, list) ==
  [k \in 1..Len(Items(list)) |-> path \o label \o "[" \o ToString(k - 1) \o "]"]

\* inside a block: the if errors, in index order, before the get errors, in
\* index order
BlockInOrder(b) ==
  /\ InOrder(<<b.path \o ".if", b.path \o ".get">>)
  /\ InOrder(EntryPrefixes(b.path, ".if", Field(b.node, "if")))
  /\ InOrder(EntryPrefixes(b.path, ".get", Field(b.node, "get")))

\* the data blocks of a rule or of a sort method, in index order
DataInOrder(p) ==
  /\ InOrder(EntryPrefixes(p.path, ".Data", Field(p.node, "Data")))
  /\ \A b \in ChildSites("block", p.path, p.node, "Data", ".Data") : BlockInOrder(b)

\* C25: whenever validateQuery returns, the errors of a rule are those of
\* its data blocks in index order (in a block the if errors in index order,
\* then the get errors in index order), then those of its scoreMethod in
\* index order, then those of its assignMethod in index order; the errors of
\* a selection are that of its quantity, then those of its sortMethod
\* entries in index order, the data blocks of each in the order of a rule's.
C25_DepthFirstOrder ==
  Returned =>
    /\ \A r \in RuleSites(query) :
         /\ InOrder(<<r.path \o ".Data", r.path \o ".scoreMethod", r.path \o ".assignMethod">>)
         /\ DataInOrder(r)
         /\ InOrder(EntryPrefixes(r.path, ".scoreMethod", Field(r.node, "scoreMethod")))
         /\ InOrder(EntryPrefixes(r.path, ".assignMethod", Field(r.node, "assignMethod")))
    /\ \A s \in SelectionSites(query) :
         /\ InOrder(<<s.path \o ".quantity", s.path \o ".sortMethod">>)
         /\ InOrder(EntryPrefixes(s.path, ".sortMethod", Field(s.node, "sortMethod")))
         /\ \A m \in ChildSites("sort", s.path, s.node, "sortMethod", ".sortMethod") :
              DataInOrder(m)

\* a rule with errors in two conditions and two fields of its first block,
\* in its second block, in two score methods and in an assign method, and a
\* selection with errors in its quantity and under two sort methods
C25_Witness ==
  /\ Returned
  /\ \A p \in {"Rule[0].Data[0].if[0]", "Rule[0].Data[0].if[2]", "Rule[0].Data[0].get[0]",
               "Rule[0].Data[0].get[1]", "Rule[0].Data[1].", "Rule[0].scoreMethod[0]",
               "Rule[0].scoreMethod[2]", "Rule[0].assignMethod[0]",
               "Selection[0].quantity", "Selection[0].sortMethod[0].Data[0].if[0]",
               "Selection[0].sortMethod[0].Data[0].get[0]", "Selection[0].sortMethod[1]"} :
       Where(p) # {}

\* the step from query to query' changes nothing but the part key of the
\* query, and not stepOptions
OnlyPart(key) ==
  /\ stepOptions' = stepOptions
  /\ \A k \in {"rules", "Selection", "scoreMethod"} \ {key} : Get(query', k) = Get(query, k)
  /\ query'.t = "object" /\ DOMAIN query'.f \subseteq DOMAIN query.f \cup {key}

\* the sequence without its entry at the zero-based index, the sequence
\* itself when it has no such entry
Without(seq, index) ==
  IF index + 1 \in DOMAIN seq
    THEN SubSeq(seq, 1, index) \o SubSeq(seq, index + 2, Len(seq))
  ELSE seq

\* the sequence with value at the zero-based index, the sequence itself when
\* it has no such entry
With(seq, index, value) ==
  IF index + 1 \in DOMAIN seq THEN [seq EXCEPT ![index + 1] = value] ELSE seq

\* the step is the list operation op on the part key, a list before the step
ListStep(op, key) == op /\ IsArray(Get(query, key))

\* C28: a store edit of the rules changes only query.rules, one of the
\* selections only query.Selection, updateScoreMethod only query.scoreMethod,
\* setStepOptions only stepOptions; on a list, add appends at the end,
\* remove(i) deletes position i alone, update(i, v) replaces position i
\* alone, and an index outside the list leaves the list as it is.
C28_EditsChangeOnlyTheirTarget ==
  /\ [][(UpdateRule \/ AddRule \/ RemoveRule \/ UpdateRules) => OnlyPart("rules")]_vars
  /\ [][(UpdateSelection \/ AddSelection \/ RemoveSelection \/ UpdateSelections)
          => OnlyPart("Selection")]_vars
  /\ [][UpdateScoreMethod => OnlyPart("scoreMethod")]_vars
  /\ [][SetStepOptions => query' = query]_vars
  /\ [][\A r \in RuleArgs :
          ListStep(Apply(addRule(query, r)), "rules")
            => Get(query', "rules") = Arr(Append(Get(query, "rules").a, r))]_vars
  /\ [][\A i \in IndexArgs :
          ListStep(Apply(removeRule(query, i)), "rules")
            => Get(query', "rules") = Arr(Without(Get(query, "rules").a, i))]_vars
  /\ [][\A i \in IndexArgs, r \in RuleArgs :
          ListStep(Apply(updateRule(query, i, r)), "rules")
            => Get(query', "rules") = Arr(With(Get(query, "rules").a, i, r))]_vars
  /\ [][\A sel \in SelectionArgs :
          ListStep(Apply(addSelection(query, sel)), "Selection")
            => Get(query', "Selection") = Arr(Append(Get(query, "Selection").a, sel))]_vars
  /\ [][\A i \in IndexArgs :
          ListStep(Apply(removeSelection(query, i)), "Selection")
            => Get(query', "Selection") = Arr(Without(Get(query, "Selection").a, i))]_vars
  /\ [][\A i \in IndexArgs, sel \in SelectionArgs :
          ListStep(Apply(updateSelection(query, i, sel)), "Selection")
            => Get(query', "Selection")
                 = Arr(With(Get(query, "Selection").a, i, sel))]_vars

\* rules, selections and score methods that only the per-index operations
\* can have put together, and stepOptions set
C28_Witness ==
  /\ pc = "returned"
  /\ Get(query, "rules") = Arr(<<GoodRule, IncompleteRule>>)
  /\ Get(query, "Selection") = Arr(<<GoodSelection, GoodSelection>>)
  /\ Get(query, "scoreMethod") = Arr(<<BadScoreMethod>>)
  /\ stepOptions = <<>>

\* the value of a score method is in the legal domain of its operation
ValueInDomain(m) ==
  LET operation == Field(m, "operation")
      value == Field(m, "value")
  IN /\ operation \in {Str("Multiplication"), Str("Addition")} => value.t = "number"
     /\ operation = Str("Percentile") =>
          value.t = "number" \/ value \in {Str("Inverse"), Str("None")}
     /\ operation = Str("None") => value = Str("None")

\* C27: whatever OperationSelector operations came before, every score
\* method of the list has a value in the legal domain of its operation; and
\* addScoreMethod with an empty value and an operation other than None adds
\* nothing.
C27_ValueInDomainOfOperation ==
  /\ \A n \in DOMAIN Items(Get(query, "scoreMethod")) :
       ValueInDomain(Get(query, "scoreMethod").a[n])
  /\ \A op \in OperationLiterals \ {"None"}, d \in DropEmptyRowLiterals :
       OperationSelector_addScoreMethod(Get(query, "scoreMethod"), op, "", d, TRUE) = NoValue

\* the conditions of all data blocks of all rules of the query
AllConditions ==
  {c \in UNION {UNION {{Get(b, "if").a[n] : n \in DOMAIN Get(b, "if").a}
                        : b \in {Get(r, "Data").a[m] : m \in DOMAIN Get(r, "Data").a}}
                : r \in {Get(query, "rules").a[k] : k \in DOMAIN Get(query, "rules").a}}
     : TRUE}

\* C22: whatever ConditionBuilder operations came before, every condition
\* with the operator in has a sequence as its value and every condition with
\* the operator equals or not equals has a scalar as its value.
C22_ValueShapeFollowsOperator ==
  \A c \in AllConditions :
    /\ Get(c, "operator") = Str("in") => IsArray(Get(c, "value"))
    /\ Get(c, "operator") \in {Str("equals"), Str("not equals")} =>
         Get(c, "value").t \in {"string", "number", "boolean"}

\* at most one of scoreMethod and assignMethod is present on the rule
AtMostOneMethod(rule) ==
  Get(rule, "scoreMethod") = Undef \/ Get(rule, "assignMethod") = Undef

\* C21: whatever editing operations on the rules came before, at most one of
\* scoreMethod and assignMethod is present on each rule: enabling one with a
\* checkbox of RuleBuilder, or choosing one with toggleRuleType of
\* RankingBuilder, removes the other.
C21_ExclusiveToggle ==
  /\ \A n \in DOMAIN Get(query, "rules").a : AtMostOneMethod(Get(query, "rules").a[n])
  /\ \A i \in Positions(Get(query, "rules")), type \in {"scoreMethod", "assignMethod"} :
       AtMostOneMethod(toggleRuleType(Get(query, "rules"), i, type).a[i + 1])
====
